---- MODULE Spec2Model ----
(***************************************************************************)
(* A model of the grammar analyzer of cloud_function/base.py: the PLY      *)
(* lexer of GrammarParser, its LALR(1) parser with the p_* reduction       *)
(* callbacks, the SemanticAnalyzer they call, and parse_input_silent on    *)
(* top of them.                                                            *)
(*                                                                         *)
(* Text is a sequence of characters, a character being a one-character     *)
(* string.  The arrow of the production texts (U+2192) is written "->"     *)
(* and is ONE character of the model, and the epsilon (U+03B5) is written  *)
(* "eps".                                                                  *)
(***************************************************************************)
EXTENDS Integers, Sequences, FiniteSets, TLC

Arrow == "->"
Quote == "\""
Newline == "\n"
Tab == "\t"

Digits == {"0", "1", "2", "3", "4", "5", "6", "7", "8", "9"}

Letters ==
    {"a", "b", "c", "d", "e", "f", "g", "h", "i", "j", "k", "l", "m",
     "n", "o", "p", "q", "r", "s", "t", "u", "v", "w", "x", "y", "z",
     "A", "B", "C", "D", "E", "F", "G", "H", "I", "J", "K", "L", "M",
     "N", "O", "P", "Q", "R", "S", "T", "U", "V", "W", "X", "Y", "Z", "_"}

None == "None"

LettersDigits == Letters \cup Digits

(***************************************************************************)
(* Helpers on text.                                                        *)
(***************************************************************************)

\* s[i..] of Python: the text from the 1-based position i on.
Drop(s, i) == SubSeq(s, i, Len(s))

\* Whether text pat occurs in text s at the 1-based position i.
OccursAt(pat, s, i) ==
    /\ i >= 1
    /\ i + Len(pat) - 1 <= Len(s)
    /\ SubSeq(s, i, i + Len(pat) - 1) = pat

\* Python's `pat in s`.
Contains(pat, s) == \E i \in 1..Len(s) : OccursAt(pat, s, i)

\* The least position >= from where pat occurs in s, or 0.
RECURSIVE FindFrom(_, _, _)
FindFrom(pat, s, from) ==
    IF from + Len(pat) - 1 > Len(s) THEN 0
    ELSE IF OccursAt(pat, s, from) THEN from
    ELSE FindFrom(pat, s, from + 1)

\* The number of leading characters of s, from position i on, that are in set.
RECURSIVE RunLen(_, _, _)
RunLen(s, i, set) ==
    IF i <= Len(s) /\ s[i] \in set THEN 1 + RunLen(s, i + 1, set) ELSE 0

\* The text of a word written as a TLA+ tuple of characters.
int_kw == <<"i", "n", "t">>
double_kw == <<"d", "o", "u", "b", "l", "e">>
string_kw == <<"s", "t", "r", "i", "n", "g">>
bool_kw == <<"b", "o", "o", "l">>
true_kw == <<"t", "r", "u", "e">>
false_kw == <<"f", "a", "l", "s", "e">>
if_kw == <<"i", "f">>
else_kw == <<"e", "l", "s", "e">>
while_kw == <<"w", "h", "i", "l", "e">>
return_kw == <<"r", "e", "t", "u", "r", "n">>
void_kw == <<"v", "o", "i", "d">>

(***************************************************************************)
(* The lexer (ply.lex over the t_* rules).  PLY tries the function rules   *)
(* in the order they are written (t_STRING, t_DECIMAL, t_NUMBER, t_ID,     *)
(* t_newline) and then the string rules, longest regular expression first, *)
(* so the two-character operators come before their one-character          *)
(* prefixes.  Characters of t_ignore are passed over before each match.    *)
(***************************************************************************)

t_ignore == {" ", Tab}

\* reserved.get(word, 'ID')
reserved(word) ==
    CASE word = int_kw -> "INT"
      [] word = double_kw -> "DOUBLE"
      [] word = string_kw -> "STRING_TYPE"
      [] word = bool_kw -> "BOOL_TYPE"
      [] word = true_kw -> "BOOL"
      [] word = false_kw -> "BOOL"
      [] word = if_kw -> "IF"
      [] word = else_kw -> "ELSE"
      [] word = while_kw -> "WHILE"
      [] word = return_kw -> "RETURN"
      [] word = void_kw -> "VOID"
      [] OTHER -> "ID"

\* The string rules with a two-character pattern, and those with one character.
\* Rules of two characters that never match, which leaves the text to the rules of one.
TwoCharOps_split(a, b) == None

\* The string rules of two characters, t_GE, t_LE, t_EQ and t_NE: the master regular
\* expression tries them before the rules of one character.
TwoCharOps(a, b) ==
    CASE a = ">" /\ b = "=" -> "GE"
      [] a = "<" /\ b = "=" -> "LE"
      [] a = "=" /\ b = "=" -> "EQ"
      [] a = "!" /\ b = "=" -> "NE"
      [] OTHER -> None

OneCharOps(a) ==
    CASE a = "+" -> "PLUS"
      [] a = "-" -> "MINUS"
      [] a = "*" -> "MULTIPLY"
      [] a = "/" -> "DIVIDE"
      [] a = "=" -> "ASSIGN"
      [] a = "(" -> "LPAREN"
      [] a = ")" -> "RPAREN"
      [] a = "{" -> "LBRACE"
      [] a = "}" -> "RBRACE"
      [] a = ";" -> "SEMICOLON"
      [] a = ">" -> "GT"
      [] a = "<" -> "LT"
      [] OTHER -> None

\* str(int(text)) for a run of digits: the leading zeros go.
RECURSIVE IntStr(_)
IntStr(ds) == IF Len(ds) > 1 /\ ds[1] = "0" THEN IntStr(Tail(ds)) ELSE ds

\* The fraction digits of str(float(text)): the trailing zeros go, one digit stays.
RECURSIVE FracStr(_)
FracStr(ds) ==
    IF Len(ds) > 1 /\ ds[Len(ds)] = "0" THEN FracStr(SubSeq(ds, 1, Len(ds) - 1)) ELSE ds

\* str(float(text)) for digits "." digits, in the range where Python prints no exponent.
FloatStr(ip, fp) == IntStr(ip) \o <<".">> \o FracStr(fp)

\* One match of the master regular expression at position i of data (1-based):
\* [type, value, len], type None when no rule matches (t_error), "newline" for
\* t_newline, which yields no token.
MatchAt(data, i) ==
    LET c == data[i]
        close == IF c = Quote THEN FindFrom(<<Quote>>, data, i + 1) ELSE 0
        nd == RunLen(data, i, Digits)
        fd == IF nd > 0 /\ i + nd <= Len(data) /\ data[i + nd] = "."
              THEN RunLen(data, i + nd + 1, Digits) ELSE 0
        nw == RunLen(data, i, LettersDigits)
        nn == RunLen(data, i, {Newline})
        two == IF i < Len(data) THEN TwoCharOps(c, data[i + 1]) ELSE None
    IN  IF close > 0
          THEN [type |-> "STRING", value |-> SubSeq(data, i, close), len |-> close - i + 1]
        ELSE IF fd > 0
          THEN [type |-> "DECIMAL",
                value |-> FloatStr(SubSeq(data, i, i + nd - 1),
                                   SubSeq(data, i + nd + 1, i + nd + fd)),
                len |-> nd + 1 + fd]
        ELSE IF nd > 0
          THEN [type |-> "NUMBER", value |-> IntStr(SubSeq(data, i, i + nd - 1)), len |-> nd]
        ELSE IF c \in Letters
          THEN [type |-> reserved(SubSeq(data, i, i + nw - 1)),
                value |-> SubSeq(data, i, i + nw - 1), len |-> nw]
        ELSE IF nn > 0
          THEN [type |-> "newline", value |-> <<>>, len |-> nn]
        ELSE IF two # None
          THEN [type |-> two, value |-> SubSeq(data, i, i + 1), len |-> 2]
        ELSE IF OneCharOps(c) # None
          THEN [type |-> OneCharOps(c), value |-> <<c>>, len |-> 1]
        ELSE [type |-> None, value |-> <<>>, len |-> 1]

\* The lexer is [pos, lineno] over the text data (lexer.lexpos, 1-based here, and
\* lexer.lineno).  NoTok is the None that lexer.token() returns at the end of the text.
NoTok == [type |-> None, value |-> <<>>, lineno |-> 0]

\* lexer.token(): [tok, pos, lineno], the next token and the lexer after the call.
\* t_ignore characters are passed over, t_newline adds to lineno and yields nothing,
\* and t_error skips one character.
\* A t_error that skips the character and the one after it.
t_error_two(pos) == pos + 2

\* t_error(t): t.lexer.skip(1), the position the lexer goes on from.
t_error(pos) == pos + 1

RECURSIVE token(_, _, _)
token(data, pos, lineno) ==
    IF pos > Len(data) THEN [tok |-> NoTok, pos |-> pos, lineno |-> lineno]
    ELSE IF data[pos] \in t_ignore THEN token(data, pos + 1, lineno)
    ELSE LET Matched(m) ==
                 IF m.type = None THEN token(data, t_error(pos), lineno)
                 ELSE IF m.type = "newline" THEN token(data, pos + m.len, lineno + m.len)
                 ELSE [tok |-> [type |-> m.type, value |-> m.value, lineno |-> lineno],
                       pos |-> pos + m.len, lineno |-> lineno]
         IN  Matched(MatchAt(data, pos))

\* `while True: tok = self.lexer.token(); if not tok: break`: the tokens read.
RECURSIVE Tokens(_, _, _)
Tokens(data, pos, lineno) ==
    LET Read(r) == IF r.tok.type = None THEN <<>>
                   ELSE <<r.tok>> \o Tokens(data, r.pos, r.lineno)
    IN  Read(token(data, pos, lineno))

\* lexer.lineno when that loop ends.
RECURSIVE LinenoAfter(_, _, _)
LinenoAfter(data, pos, lineno) ==
    LET Read(r) == IF r.tok.type = None THEN r.lineno
                   ELSE LinenoAfter(data, r.pos, r.lineno)
    IN  Read(token(data, pos, lineno))

(***************************************************************************)
(* ParseNode.  A node is [value, production_rule, children]; value and     *)
(* production_rule are f-strings of the source and are kept as the fixed   *)
(* text (head) followed by the interpolated token value (arg, a text).     *)
(***************************************************************************)

Text(head, arg) == [head |-> head, arg |-> arg]

\* ParseNode(value, production_rule=...) with no children yet.
ParseNode(value, production_rule) ==
    [value |-> value, production_rule |-> production_rule, children |-> <<>>]

\* node.add_child(child)
add_child(node, child) == [node EXCEPT !.children = Append(@, child)]

\* ParseNode('INT', production_rule='INT -> int') and its like: a leaf of fixed text.
Leaf(value, rule) == ParseNode(Text(value, <<>>), Text(rule, <<>>))

\* ParseNode(f'ID({v})', production_rule=f'ID -> {v}') and its like, for the token
\* name tok: the value is 'tok(' v ')' and the production text is 'tok -> ' v.
ValueLeaf(tok, v) ==
    ParseNode(Text(tok, v),
              Text(CASE tok = "ID" -> "ID -> "
                     [] tok = "NUMBER" -> "NUMBER -> "
                     [] tok = "DECIMAL" -> "DECIMAL -> "
                     [] tok = "STRING" -> "STRING -> "
                     [] tok = "BOOL" -> "BOOL -> ", v))

(***************************************************************************)
(* The tests `'X ->' in child.production_rule` of the analyzer.  The       *)
(* production text is head + arg.  No pattern can lie across the two: a    *)
(* pattern ends with the arrow and every head that has an arg ends with    *)
(* arrow and space.  So the test is decided on the head (the fixed texts   *)
(* of the p_* callbacks) or inside the arg (the token's value).            *)
(***************************************************************************)

Pattern(name) ==
    CASE name = "+" -> <<"+", " ", Arrow>>
      [] name = "*" -> <<"*", " ", Arrow>>
      [] name = "ID" -> <<"I", "D", " ", Arrow>>
      [] name = "NUMBER" -> <<"N", "U", "M", "B", "E", "R", " ", Arrow>>
      [] name = "DECIMAL" -> <<"D", "E", "C", "I", "M", "A", "L", " ", Arrow>>
      [] name = "STRING" -> <<"S", "T", "R", "I", "N", "G", " ", Arrow>>
      [] name = "BOOLEAN" -> <<"B", "O", "O", "L", "E", "A", "N", " ", Arrow>>

\* The heads the callbacks write that hold the pattern: one each, and none for
\* 'BOOLEAN ->' (p_factor_bool writes 'BOOL -> ...'; 'STRING_TYPE -> string',
\* 'factor -> ID' and the other rule texts hold no pattern).
HeadHolds(name, head) ==
    CASE name = "+" -> head = "+ -> +"
      [] name = "*" -> head = "* -> *"
      [] name = "ID" -> head = "ID -> "
      [] name = "NUMBER" -> head = "NUMBER -> "
      [] name = "DECIMAL" -> head = "DECIMAL -> "
      [] name = "STRING" -> head = "STRING -> "
      [] name = "BOOLEAN" -> FALSE

InRule(name, rule) ==
    HeadHolds(name, rule.head) \/ Contains(Pattern(name), rule.arg)

\* production_rule.split('ID -> ')[1]: the text between the first and the second
\* occurrence of 'ID -> ' (with its trailing space), as <<text>>; <<>> stands for the
\* IndexError Python raises when the text has no occurrence.
IdSep == <<"I", "D", " ", Arrow, " ">>

UpToSep(s) ==
    LET k == FindFrom(IdSep, s, 1) IN IF k = 0 THEN s ELSE SubSeq(s, 1, k - 1)

SplitId1(rule) ==
    IF rule.head = "ID -> " THEN <<UpToSep(rule.arg)>>
    ELSE LET k == FindFrom(IdSep, rule.arg, 1)
         IN  IF k = 0 THEN <<>> ELSE <<UpToSep(Drop(rule.arg, k + Len(IdSep)))>>

(***************************************************************************)
(* SemanticAnalyzer.  variables is a function from names to entries.       *)
(***************************************************************************)

NoVariables == [n \in {} |-> 0]

Msg(kind, var, t1, op, t2, line) ==
    [kind |-> kind, var |-> var, t1 |-> t1, op |-> op, t2 |-> t2, line |-> line]

\* The None a check returns when it finds no error.
NoError == Msg("", <<>>, "", "", "", 0)

\* "Semantic Error: Variable '{name}' already declared at line {line}"
AlreadyDeclaredMsg(name, line) == Msg("already declared", name, "", "", "", line)

\* "Semantic Error: Variable '{name}' not declared"
NotDeclaredMsg(name) == Msg("not declared", name, "", "", "", 0)

\* "Semantic Error: Cannot assign {expr_name} value to {declared_name} variable '{var_name}'"
CannotAssignMsg(expr_name, declared_name, var) ==
    Msg("Cannot assign", var, expr_name, "", declared_name, 0)

\* "Semantic Error: Cannot perform '{op}' operation between {type1_name} and
\* {type2_name} in assignment to variable '{var_name}'"
CannotPerformMsg(op, t1, t2, var) == Msg("Cannot perform", var, t1, op, t2, 0)

\* "Semantic Error: Type mismatch in expression assigned to variable '{var_name}'"
TypeMismatchMsg(var) == Msg("Type mismatch", var, "", "", "", 0)

\* A declare_variable that enters the variable as an initialized one.
declare_variable_initialized(variables, name, var_type, line_no) ==
    IF name \in DOMAIN variables
    THEN [error |-> AlreadyDeclaredMsg(name, variables[name].line_no),
          variables |-> variables]
    ELSE [error |-> NoError,
          variables |-> [n \in DOMAIN variables \cup {name} |->
                            IF n = name
                            THEN [type |-> var_type, line_no |-> line_no,
                                  initialized |-> TRUE]
                            ELSE variables[n]]]

\* A declare_variable that overwrites the entry of a name it finds.
declare_variable_overwriting(variables, name, var_type, line_no) ==
    [error |-> NoError,
     variables |-> [n \in DOMAIN variables \cup {name} |->
                       IF n = name
                       THEN [type |-> var_type, line_no |-> line_no,
                             initialized |-> FALSE]
                       ELSE variables[n]]]

\* [error, variables] of declare_variable(name, var_type, line_no)
declare_variable(variables, name, var_type, line_no) ==
    IF name \in DOMAIN variables
    THEN [error |-> AlreadyDeclaredMsg(name, variables[name].line_no),
          variables |-> variables]
    ELSE [error |-> NoError,
          variables |-> (name :> [type |-> var_type, line_no |-> line_no,
                                  initialized |-> FALSE]) @@ variables]

check_variable(variables, name) ==
    IF name \notin DOMAIN variables THEN NotDeclaredMsg(name) ELSE NoError

\* What traverse appends for one child: [operands, operators, raised].
Collected(operands, operators, raised) ==
    [operands |-> operands, operators |-> operators, raised |-> raised]

ClassifyChild(variables, child) ==
    LET r == child.production_rule
    IN  IF InRule("+", r) THEN Collected(<<>>, <<"+">>, FALSE)
        ELSE IF InRule("*", r) THEN Collected(<<>>, <<"*">>, FALSE)
        ELSE IF InRule("ID", r) THEN
            LET Named(var_name) ==
                    IF var_name = <<>> THEN Collected(<<>>, <<>>, TRUE)
                    ELSE IF var_name[1] \in DOMAIN variables
                         THEN Collected(<<variables[var_name[1]].type>>, <<>>, FALSE)
                         ELSE Collected(<<"undeclared">>, <<>>, FALSE)
            IN  Named(SplitId1(r))
        ELSE IF InRule("NUMBER", r) THEN Collected(<<"int">>, <<>>, FALSE)
        ELSE IF InRule("DECIMAL", r) THEN Collected(<<"double">>, <<>>, FALSE)
        ELSE IF InRule("STRING", r) THEN Collected(<<"string">>, <<>>, FALSE)
        ELSE IF InRule("BOOLEAN", r) THEN Collected(<<"bool">>, <<>>, FALSE)
        ELSE Collected(<<>>, <<>>, FALSE)

Join(a, b) ==
    IF a.raised THEN a
    ELSE Collected(a.operands \o b.operands, a.operators \o b.operators, b.raised)

\* traverse(node) from child i on: each child is classified, then descended into.
RECURSIVE traverse(_, _, _)
traverse(variables, node, i) ==
    IF i > Len(node.children) THEN Collected(<<>>, <<>>, FALSE)
    ELSE LET child == node.children[i]
         IN  Join(ClassifyChild(variables, child),
                  Join(traverse(variables, child, 1), traverse(variables, node, i + 1)))

_collect_operands_and_operators(variables, node) == traverse(variables, node, 1)

_is_operation_valid(type1, operator, type2) ==
    <<type1, operator, type2>> \in
        {<<"int", "+", "int">>, <<"int", "*", "int">>,
         <<"double", "+", "double">>, <<"double", "*", "double">>,
         <<"double", "+", "int">>, <<"int", "+", "double">>,
         <<"double", "*", "int">>, <<"int", "*", "double">>,
         <<"string", "+", "string">>}

\* A result type without promotion: that of the first operand.
_get_result_type_first(type1, operator, type2) == type1

_get_result_type(type1, operator, type2) ==
    IF type1 = "double" \/ type2 = "double" THEN "double"
    ELSE IF type1 = "string" \/ type2 = "string" THEN "string"
    ELSE type1

\* The loop of _analyze_expression_with_operators from operator i on (1-based), with
\* first_type the running type.
RECURSIVE AnalyzeLoop(_, _, _, _)
AnalyzeLoop(operands, operators, i, first_type) ==
    IF i > Len(operators) THEN first_type
    ELSE IF i + 1 <= Len(operands)
         THEN LET second_type == operands[i + 1]
              IN  IF ~_is_operation_valid(first_type, operators[i], second_type)
                  THEN "type_error"
                  ELSE AnalyzeLoop(operands, operators, i + 1,
                                   _get_result_type(first_type, operators[i], second_type))
         ELSE AnalyzeLoop(operands, operators, i + 1, first_type)

_analyze_expression_with_operators(operands, operators) ==
    IF operands = <<>> THEN "unknown"
    ELSE AnalyzeLoop(operands, operators, 1, operands[1])

\* _find_single_value_type(node) from child i on: a type, or None for the IndexError.
RECURSIVE FindSingle(_, _, _)
FindSingle(variables, node, i) ==
    IF i > Len(node.children) THEN "unknown"
    ELSE LET child == node.children[i]
             r == child.production_rule
             Named(var_name) ==
                 IF var_name = <<>> THEN None
                 ELSE IF var_name[1] \in DOMAIN variables
                      THEN variables[var_name[1]].type
                      ELSE "undeclared"
             Descend(result) ==
                 IF result # "unknown" THEN result
                 ELSE FindSingle(variables, node, i + 1)
         IN  IF InRule("NUMBER", r) THEN "int"
             ELSE IF InRule("DECIMAL", r) THEN "double"
             ELSE IF InRule("STRING", r) THEN "string"
             ELSE IF InRule("BOOLEAN", r) THEN "bool"
             ELSE IF InRule("ID", r) THEN Named(SplitId1(r))
             ELSE Descend(FindSingle(variables, child, 1))

_find_single_value_type(variables, node) == FindSingle(variables, node, 1)

\* get_expression_type(node): a type name, or None when the call raises.
get_expression_type(variables, node) ==
    LET Typed(c) ==
            IF c.raised THEN None
            ELSE IF Len(c.operands) > 1
                 THEN _analyze_expression_with_operators(c.operands, c.operators)
            ELSE IF Len(c.operands) = 1 THEN c.operands[1]
            ELSE _find_single_value_type(variables, node)
    IN  Typed(_collect_operands_and_operators(variables, node))

\* type_names.get(t, t)
type_names(t) ==
    CASE t = "int" -> "integer"
      [] t = "double" -> "decimal"
      [] t = "string" -> "string"
      [] t = "bool" -> "boolean"
      [] OTHER -> t

_generate_type_error_message(operands, operators, var_name) ==
    IF Len(operands) >= 2 /\ Len(operators) >= 1
    THEN CannotPerformMsg(operators[1], type_names(operands[1]),
                          type_names(operands[2]), var_name)
    ELSE TypeMismatchMsg(var_name)

\* check_type_compatibility(declared_type, expression_node, var_name):
\* [error, raised], error NoError when the types are compatible.
check_type_compatibility(variables, declared_type, node, var_name) ==
    LET TypeError(c) == _generate_type_error_message(c.operands, c.operators, var_name)
        Checked(expr_type) ==
            IF expr_type = None THEN [error |-> NoError, raised |-> TRUE]
            ELSE IF expr_type = "undeclared" THEN [error |-> NoError, raised |-> FALSE]
            ELSE IF expr_type = "unknown" THEN [error |-> NoError, raised |-> FALSE]
            ELSE IF expr_type = "type_error"
                 THEN [error |-> TypeError(_collect_operands_and_operators(variables,
                                                                           node)),
                       raised |-> FALSE]
            ELSE IF declared_type = expr_type THEN [error |-> NoError, raised |-> FALSE]
            ELSE [error |-> CannotAssignMsg(type_names(expr_type),
                                            type_names(declared_type), var_name),
                  raised |-> FALSE]
    IN  Checked(get_expression_type(variables, node))

\* A reset that clears nothing.
reset_kept(variables) == variables

\* SemanticAnalyzer.reset(): the variables after it, given those before it.
reset(variables) == NoVariables

(***************************************************************************)
(* The parser (ply.yacc over the p_* rules).                               *)
(***************************************************************************)

\* The grammar: the docstrings of the p_* callbacks in the order they are written,
\* which is the numbering PLY gives the productions (from 1).
Productions ==
    <<[name |-> "statement", rhs |-> <<"declaration">>],
      [name |-> "statement", rhs |-> <<"expression">>],
      [name |-> "statement", rhs |-> <<"if_statement">>],
      [name |-> "statement", rhs |-> <<"while_statement">>],
      [name |-> "declaration", rhs |-> <<"INT", "ID", "ASSIGN", "expression">>],
      [name |-> "declaration", rhs |-> <<"DOUBLE", "ID", "ASSIGN", "expression">>],
      [name |-> "declaration", rhs |-> <<"STRING_TYPE", "ID", "ASSIGN", "expression">>],
      [name |-> "declaration", rhs |-> <<"BOOL_TYPE", "ID", "ASSIGN", "expression">>],
      [name |-> "declaration", rhs |-> <<"INT", "ID">>],
      [name |-> "declaration", rhs |-> <<"DOUBLE", "ID">>],
      [name |-> "declaration", rhs |-> <<"STRING_TYPE", "ID">>],
      [name |-> "declaration", rhs |-> <<"BOOL_TYPE", "ID">>],
      [name |-> "expression", rhs |-> <<"term", "expression_prime">>],
      [name |-> "expression_prime", rhs |-> <<"PLUS", "term", "expression_prime">>],
      [name |-> "expression_prime", rhs |-> <<>>],
      [name |-> "term", rhs |-> <<"factor", "term_prime">>],
      [name |-> "term_prime", rhs |-> <<"MULTIPLY", "factor", "term_prime">>],
      [name |-> "term_prime", rhs |-> <<>>],
      [name |-> "factor", rhs |-> <<"LPAREN", "expression", "RPAREN">>],
      [name |-> "factor", rhs |-> <<"ID">>],
      [name |-> "factor", rhs |-> <<"NUMBER">>],
      [name |-> "factor", rhs |-> <<"DECIMAL">>],
      [name |-> "factor", rhs |-> <<"STRING">>],
      [name |-> "factor", rhs |-> <<"BOOL">>],
      [name |-> "if_statement", rhs |-> <<"IF", "LPAREN", "condition", "RPAREN">>],
      [name |-> "while_statement", rhs |-> <<"WHILE", "LPAREN", "condition", "RPAREN">>],
      [name |-> "condition", rhs |-> <<"expression", "GT", "expression">>],
      [name |-> "condition", rhs |-> <<"expression", "LT", "expression">>],
      [name |-> "condition", rhs |-> <<"expression", "GE", "expression">>],
      [name |-> "condition", rhs |-> <<"expression", "LE", "expression">>],
      [name |-> "condition", rhs |-> <<"expression", "EQ", "expression">>],
      [name |-> "condition", rhs |-> <<"expression", "NE", "expression">>]>>

\* The LALR(1) tables yacc.yacc builds for Productions, with the start symbol statement
\* (the first rule).  The grammar has no conflict and its LALR(1) and SLR(1) tables are
\* the same.  State i is row i + 1.  An action is a state to shift to (> 0), minus the
\* number of the production to reduce by (< 0), or 0 to accept.
ActionTable ==
    <<
      \* 0: S' -> . statement
      ("BOOL" :> 17 @@ "BOOL_TYPE" :> 9 @@ "DECIMAL" :> 15 @@ "DOUBLE" :> 7
        @@ "ID" :> 13 @@ "IF" :> 18 @@ "INT" :> 6 @@ "LPAREN" :> 12 @@ "NUMBER" :> 14
        @@ "STRING" :> 16 @@ "STRING_TYPE" :> 8 @@ "WHILE" :> 19),
      \* 1: S' -> statement .
      ("$end" :> 0),
      \* 2: statement -> declaration .
      ("$end" :> -1),
      \* 3: statement -> expression .
      ("$end" :> -2),
      \* 4: statement -> if_statement .
      ("$end" :> -3),
      \* 5: statement -> while_statement .
      ("$end" :> -4),
      \* 6: declaration -> INT . ID ASSIGN expression; declaration -> INT . ID
      ("ID" :> 20),
      \* 7: declaration -> DOUBLE . ID ASSIGN expression; declaration -> DOUBLE . ID
      ("ID" :> 21),
      \* 8: declaration -> STRING_TYPE . ID ASSIGN expression; declaration -> STRING_TYPE . ID
      ("ID" :> 22),
      \* 9: declaration -> BOOL_TYPE . ID ASSIGN expression; declaration -> BOOL_TYPE . ID
      ("ID" :> 23),
      \* 10: expression -> term . expression_prime
      ("$end" :> -15 @@ "EQ" :> -15 @@ "GE" :> -15 @@ "GT" :> -15 @@ "LE" :> -15
        @@ "LT" :> -15 @@ "NE" :> -15 @@ "PLUS" :> 25 @@ "RPAREN" :> -15),
      \* 11: term -> factor . term_prime
      ("$end" :> -18 @@ "EQ" :> -18 @@ "GE" :> -18 @@ "GT" :> -18 @@ "LE" :> -18
        @@ "LT" :> -18 @@ "MULTIPLY" :> 27 @@ "NE" :> -18 @@ "PLUS" :> -18
        @@ "RPAREN" :> -18),
      \* 12: factor -> LPAREN . expression RPAREN
      ("BOOL" :> 17 @@ "DECIMAL" :> 15 @@ "ID" :> 13 @@ "LPAREN" :> 12 @@ "NUMBER" :> 14
        @@ "STRING" :> 16),
      \* 13: factor -> ID .
      ("$end" :> -20 @@ "EQ" :> -20 @@ "GE" :> -20 @@ "GT" :> -20 @@ "LE" :> -20
        @@ "LT" :> -20 @@ "MULTIPLY" :> -20 @@ "NE" :> -20 @@ "PLUS" :> -20
        @@ "RPAREN" :> -20),
      \* 14: factor -> NUMBER .
      ("$end" :> -21 @@ "EQ" :> -21 @@ "GE" :> -21 @@ "GT" :> -21 @@ "LE" :> -21
        @@ "LT" :> -21 @@ "MULTIPLY" :> -21 @@ "NE" :> -21 @@ "PLUS" :> -21
        @@ "RPAREN" :> -21),
      \* 15: factor -> DECIMAL .
      ("$end" :> -22 @@ "EQ" :> -22 @@ "GE" :> -22 @@ "GT" :> -22 @@ "LE" :> -22
        @@ "LT" :> -22 @@ "MULTIPLY" :> -22 @@ "NE" :> -22 @@ "PLUS" :> -22
        @@ "RPAREN" :> -22),
      \* 16: factor -> STRING .
      ("$end" :> -23 @@ "EQ" :> -23 @@ "GE" :> -23 @@ "GT" :> -23 @@ "LE" :> -23
        @@ "LT" :> -23 @@ "MULTIPLY" :> -23 @@ "NE" :> -23 @@ "PLUS" :> -23
        @@ "RPAREN" :> -23),
      \* 17: factor -> BOOL .
      ("$end" :> -24 @@ "EQ" :> -24 @@ "GE" :> -24 @@ "GT" :> -24 @@ "LE" :> -24
        @@ "LT" :> -24 @@ "MULTIPLY" :> -24 @@ "NE" :> -24 @@ "PLUS" :> -24
        @@ "RPAREN" :> -24),
      \* 18: if_statement -> IF . LPAREN condition RPAREN
      ("LPAREN" :> 29),
      \* 19: while_statement -> WHILE . LPAREN condition RPAREN
      ("LPAREN" :> 30),
      \* 20: declaration -> INT ID . ASSIGN expression; declaration -> INT ID .
      ("$end" :> -9 @@ "ASSIGN" :> 31),
      \* 21: declaration -> DOUBLE ID . ASSIGN expression; declaration -> DOUBLE ID .
      ("$end" :> -10 @@ "ASSIGN" :> 32),
      \* 22: declaration -> STRING_TYPE ID . ASSIGN expression; declaration -> STRING_TYPE ID .
      ("$end" :> -11 @@ "ASSIGN" :> 33),
      \* 23: declaration -> BOOL_TYPE ID . ASSIGN expression; declaration -> BOOL_TYPE ID .
      ("$end" :> -12 @@ "ASSIGN" :> 34),
      \* 24: expression -> term expression_prime .
      ("$end" :> -13 @@ "EQ" :> -13 @@ "GE" :> -13 @@ "GT" :> -13 @@ "LE" :> -13
        @@ "LT" :> -13 @@ "NE" :> -13 @@ "RPAREN" :> -13),
      \* 25: expression_prime -> PLUS . term expression_prime
      ("BOOL" :> 17 @@ "DECIMAL" :> 15 @@ "ID" :> 13 @@ "LPAREN" :> 12 @@ "NUMBER" :> 14
        @@ "STRING" :> 16),
      \* 26: term -> factor term_prime .
      ("$end" :> -16 @@ "EQ" :> -16 @@ "GE" :> -16 @@ "GT" :> -16 @@ "LE" :> -16
        @@ "LT" :> -16 @@ "NE" :> -16 @@ "PLUS" :> -16 @@ "RPAREN" :> -16),
      \* 27: term_prime -> MULTIPLY . factor term_prime
      ("BOOL" :> 17 @@ "DECIMAL" :> 15 @@ "ID" :> 13 @@ "LPAREN" :> 12 @@ "NUMBER" :> 14
        @@ "STRING" :> 16),
      \* 28: factor -> LPAREN expression . RPAREN
      ("RPAREN" :> 37),
      \* 29: if_statement -> IF LPAREN . condition RPAREN
      ("BOOL" :> 17 @@ "DECIMAL" :> 15 @@ "ID" :> 13 @@ "LPAREN" :> 12 @@ "NUMBER" :> 14
        @@ "STRING" :> 16),
      \* 30: while_statement -> WHILE LPAREN . condition RPAREN
      ("BOOL" :> 17 @@ "DECIMAL" :> 15 @@ "ID" :> 13 @@ "LPAREN" :> 12 @@ "NUMBER" :> 14
        @@ "STRING" :> 16),
      \* 31: declaration -> INT ID ASSIGN . expression
      ("BOOL" :> 17 @@ "DECIMAL" :> 15 @@ "ID" :> 13 @@ "LPAREN" :> 12 @@ "NUMBER" :> 14
        @@ "STRING" :> 16),
      \* 32: declaration -> DOUBLE ID ASSIGN . expression
      ("BOOL" :> 17 @@ "DECIMAL" :> 15 @@ "ID" :> 13 @@ "LPAREN" :> 12 @@ "NUMBER" :> 14
        @@ "STRING" :> 16),
      \* 33: declaration -> STRING_TYPE ID ASSIGN . expression
      ("BOOL" :> 17 @@ "DECIMAL" :> 15 @@ "ID" :> 13 @@ "LPAREN" :> 12 @@ "NUMBER" :> 14
        @@ "STRING" :> 16),
      \* 34: declaration -> BOOL_TYPE ID ASSIGN . expression
      ("BOOL" :> 17 @@ "DECIMAL" :> 15 @@ "ID" :> 13 @@ "LPAREN" :> 12 @@ "NUMBER" :> 14
        @@ "STRING" :> 16),
      \* 35: expression_prime -> PLUS term . expression_prime
      ("$end" :> -15 @@ "EQ" :> -15 @@ "GE" :> -15 @@ "GT" :> -15 @@ "LE" :> -15
        @@ "LT" :> -15 @@ "NE" :> -15 @@ "PLUS" :> 25 @@ "RPAREN" :> -15),
      \* 36: term_prime -> MULTIPLY factor . term_prime
      ("$end" :> -18 @@ "EQ" :> -18 @@ "GE" :> -18 @@ "GT" :> -18 @@ "LE" :> -18
        @@ "LT" :> -18 @@ "MULTIPLY" :> 27 @@ "NE" :> -18 @@ "PLUS" :> -18
        @@ "RPAREN" :> -18),
      \* 37: factor -> LPAREN expression RPAREN .
      ("$end" :> -19 @@ "EQ" :> -19 @@ "GE" :> -19 @@ "GT" :> -19 @@ "LE" :> -19
        @@ "LT" :> -19 @@ "MULTIPLY" :> -19 @@ "NE" :> -19 @@ "PLUS" :> -19
        @@ "RPAREN" :> -19),
      \* 38: if_statement -> IF LPAREN condition . RPAREN
      ("RPAREN" :> 47),
      \* 39: condition -> expression . GT expression; condition -> expression . LT expression; condition -> expression . GE expression; condition -> expression . LE expression; condition -> expression . EQ expression; condition -> expression . NE expression
      ("EQ" :> 52 @@ "GE" :> 50 @@ "GT" :> 48 @@ "LE" :> 51 @@ "LT" :> 49 @@ "NE" :> 53),
      \* 40: while_statement -> WHILE LPAREN condition . RPAREN
      ("RPAREN" :> 54),
      \* 41: declaration -> INT ID ASSIGN expression .
      ("$end" :> -5),
      \* 42: declaration -> DOUBLE ID ASSIGN expression .
      ("$end" :> -6),
      \* 43: declaration -> STRING_TYPE ID ASSIGN expression .
      ("$end" :> -7),
      \* 44: declaration -> BOOL_TYPE ID ASSIGN expression .
      ("$end" :> -8),
      \* 45: expression_prime -> PLUS term expression_prime .
      ("$end" :> -14 @@ "EQ" :> -14 @@ "GE" :> -14 @@ "GT" :> -14 @@ "LE" :> -14
        @@ "LT" :> -14 @@ "NE" :> -14 @@ "RPAREN" :> -14),
      \* 46: term_prime -> MULTIPLY factor term_prime .
      ("$end" :> -17 @@ "EQ" :> -17 @@ "GE" :> -17 @@ "GT" :> -17 @@ "LE" :> -17
        @@ "LT" :> -17 @@ "NE" :> -17 @@ "PLUS" :> -17 @@ "RPAREN" :> -17),
      \* 47: if_statement -> IF LPAREN condition RPAREN .
      ("$end" :> -25),
      \* 48: condition -> expression GT . expression
      ("BOOL" :> 17 @@ "DECIMAL" :> 15 @@ "ID" :> 13 @@ "LPAREN" :> 12 @@ "NUMBER" :> 14
        @@ "STRING" :> 16),
      \* 49: condition -> expression LT . expression
      ("BOOL" :> 17 @@ "DECIMAL" :> 15 @@ "ID" :> 13 @@ "LPAREN" :> 12 @@ "NUMBER" :> 14
        @@ "STRING" :> 16),
      \* 50: condition -> expression GE . expression
      ("BOOL" :> 17 @@ "DECIMAL" :> 15 @@ "ID" :> 13 @@ "LPAREN" :> 12 @@ "NUMBER" :> 14
        @@ "STRING" :> 16),
      \* 51: condition -> expression LE . expression
      ("BOOL" :> 17 @@ "DECIMAL" :> 15 @@ "ID" :> 13 @@ "LPAREN" :> 12 @@ "NUMBER" :> 14
        @@ "STRING" :> 16),
      \* 52: condition -> expression EQ . expression
      ("BOOL" :> 17 @@ "DECIMAL" :> 15 @@ "ID" :> 13 @@ "LPAREN" :> 12 @@ "NUMBER" :> 14
        @@ "STRING" :> 16),
      \* 53: condition -> expression NE . expression
      ("BOOL" :> 17 @@ "DECIMAL" :> 15 @@ "ID" :> 13 @@ "LPAREN" :> 12 @@ "NUMBER" :> 14
        @@ "STRING" :> 16),
      \* 54: while_statement -> WHILE LPAREN condition RPAREN .
      ("$end" :> -26),
      \* 55: condition -> expression GT expression .
      ("RPAREN" :> -27),
      \* 56: condition -> expression LT expression .
      ("RPAREN" :> -28),
      \* 57: condition -> expression GE expression .
      ("RPAREN" :> -29),
      \* 58: condition -> expression LE expression .
      ("RPAREN" :> -30),
      \* 59: condition -> expression EQ expression .
      ("RPAREN" :> -31),
      \* 60: condition -> expression NE expression .
      ("RPAREN" :> -32)
    >>

GotoTable ==
    <<
      ("declaration" :> 2 @@ "expression" :> 3 @@ "factor" :> 11 @@ "if_statement" :> 4
        @@ "statement" :> 1 @@ "term" :> 10 @@ "while_statement" :> 5),
      <<>>,
      <<>>,
      <<>>,
      <<>>,
      <<>>,
      <<>>,
      <<>>,
      <<>>,
      <<>>,
      ("expression_prime" :> 24),
      ("term_prime" :> 26),
      ("expression" :> 28 @@ "factor" :> 11 @@ "term" :> 10),
      <<>>,
      <<>>,
      <<>>,
      <<>>,
      <<>>,
      <<>>,
      <<>>,
      <<>>,
      <<>>,
      <<>>,
      <<>>,
      <<>>,
      ("factor" :> 11 @@ "term" :> 35),
      <<>>,
      ("factor" :> 36),
      <<>>,
      ("condition" :> 38 @@ "expression" :> 39 @@ "factor" :> 11 @@ "term" :> 10),
      ("condition" :> 40 @@ "expression" :> 39 @@ "factor" :> 11 @@ "term" :> 10),
      ("expression" :> 41 @@ "factor" :> 11 @@ "term" :> 10),
      ("expression" :> 42 @@ "factor" :> 11 @@ "term" :> 10),
      ("expression" :> 43 @@ "factor" :> 11 @@ "term" :> 10),
      ("expression" :> 44 @@ "factor" :> 11 @@ "term" :> 10),
      ("expression_prime" :> 45),
      ("term_prime" :> 46),
      <<>>,
      <<>>,
      <<>>,
      <<>>,
      <<>>,
      <<>>,
      <<>>,
      <<>>,
      <<>>,
      <<>>,
      <<>>,
      ("expression" :> 55 @@ "factor" :> 11 @@ "term" :> 10),
      ("expression" :> 56 @@ "factor" :> 11 @@ "term" :> 10),
      ("expression" :> 57 @@ "factor" :> 11 @@ "term" :> 10),
      ("expression" :> 58 @@ "factor" :> 11 @@ "term" :> 10),
      ("expression" :> 59 @@ "factor" :> 11 @@ "term" :> 10),
      ("expression" :> 60 @@ "factor" :> 11 @@ "term" :> 10),
      <<>>,
      <<>>,
      <<>>,
      <<>>,
      <<>>,
      <<>>,
      <<>>
    >>

\* The states with one action only, a reduction: PLY reduces there without reading
\* the lookahead (its defaulted_states).
defaulted_states ==
    LET OneReduction(row) == Cardinality(DOMAIN row) = 1 /\ \A t \in DOMAIN row : row[t] < 0
    IN  {state \in 0..(Len(ActionTable) - 1) : OneReduction(ActionTable[state + 1])}

IsDefaulted(state) == state \in defaulted_states

\* Whether the state has an action for the lookahead: a defaulted state has its
\* reduction whatever the lookahead is.
HasAction(state, ltype) ==
    IsDefaulted(state) \/ ltype \in DOMAIN ActionTable[state + 1]

\* actions[state][ltype], or the defaulted reduction.
ActionOf(state, ltype) ==
    LET Act(row) ==
            IF IsDefaulted(state) THEN row[CHOOSE t \in DOMAIN row : TRUE] ELSE row[ltype]
    IN  Act(ActionTable[state + 1])

(***************************************************************************)
(* The reduction callbacks.  p is the sequence of the symbols of the right *)
(* side, each [type, value, lineno]: the value of a token is its text, the *)
(* value of a nonterminal is its ParseNode.  sa is what the callbacks read *)
(* and write of the GrammarParser: [variables, semantic_errors, raised],   *)
(* raised standing for an exception that leaves the callback.              *)
(***************************************************************************)

Inner(name, rule, children) ==
    [value |-> Text(name, <<>>), production_rule |-> Text(rule, <<>>),
     children |-> children]

Done(node, sa) == [node |-> node, sa |-> sa]

\* A statement callback that checks the types under the statement as an initializer
\* of an int is checked.
p_statement_checked(rule, p, sa) ==
    LET Checked(c) ==
            IF c.raised \/ c.error = NoError THEN sa
            ELSE [sa EXCEPT !.semantic_errors = Append(@, c.error)]
    IN  Done(Inner("statement", rule, <<p[1].value>>),
             Checked(check_type_compatibility(sa.variables, "int", p[1].value, <<>>)))

\* p_statement_declaration, p_statement_expression, p_statement_if, p_statement_while
p_statement(rule, p, sa) == Done(Inner("statement", rule, <<p[1].value>>), sa)

\* A declaration callback that checks the initializer against the table as it is
\* before the variable is entered.
p_declaration_check_first(kw, rule, var_type, p, sa) ==
    LET node == Inner("declaration", rule,
                      <<Leaf(kw, kw \o " -> " \o var_type), ValueLeaf("ID", p[2].value),
                        Leaf("ASSIGN", "ASSIGN -> ="), p[4].value>>)
        Declared(d, c) ==
            IF d.error # NoError
            THEN [sa EXCEPT !.semantic_errors = Append(@, d.error)]
            ELSE IF c.raised
            THEN [sa EXCEPT !.variables = d.variables, !.raised = TRUE]
            ELSE IF c.error # NoError
            THEN [sa EXCEPT !.variables = d.variables,
                            !.semantic_errors = Append(@, c.error)]
            ELSE [sa EXCEPT !.variables =
                     [d.variables EXCEPT ![p[2].value].initialized = TRUE]]
    IN  Done(node, Declared(declare_variable(sa.variables, p[2].value, var_type,
                                             p[2].lineno),
                            check_type_compatibility(sa.variables, var_type, p[4].value,
                                                     p[2].value)))

\* p_declaration_int, p_declaration_double, p_declaration_string, p_declaration_bool,
\* which differ in the keyword and the type only.
p_declaration(kw, rule, var_type, p, sa) ==
    LET node == Inner("declaration", rule,
                      <<Leaf(kw, kw \o " -> " \o var_type), ValueLeaf("ID", p[2].value),
                        Leaf("ASSIGN", "ASSIGN -> ="), p[4].value>>)
        Checked(d, c) ==
            IF c.raised
            THEN [sa EXCEPT !.variables = d.variables, !.raised = TRUE]
            ELSE IF c.error # NoError
            THEN [sa EXCEPT !.variables = d.variables,
                            !.semantic_errors = Append(@, c.error)]
            ELSE [sa EXCEPT !.variables =
                     [d.variables EXCEPT ![p[2].value].initialized = TRUE]]
        Declared(d) ==
            IF d.error # NoError
            THEN [sa EXCEPT !.semantic_errors = Append(@, d.error)]
            ELSE Checked(d, check_type_compatibility(d.variables, var_type, p[4].value,
                                                     p[2].value))
    IN  Done(node, Declared(declare_variable(sa.variables, p[2].value, var_type,
                                             p[2].lineno)))

\* p_declaration_no_init_int, _double, _string, _bool
p_declaration_no_init(kw, rule, var_type, p, sa) ==
    LET node == Inner("declaration", rule,
                      <<Leaf(kw, kw \o " -> " \o var_type), ValueLeaf("ID", p[2].value)>>)
        Declared(d) ==
            IF d.error # NoError
            THEN [sa EXCEPT !.semantic_errors = Append(@, d.error)]
            ELSE [sa EXCEPT !.variables = d.variables]
    IN  Done(node, Declared(declare_variable(sa.variables, p[2].value, var_type,
                                             p[2].lineno)))

p_expression(p, sa) ==
    Done(Inner("expression", "expression -> term expression_prime",
               <<p[1].value, p[2].value>>), sa)

p_expression_prime_plus(p, sa) ==
    Done(Inner("expression_prime", "expression_prime -> + term expression_prime",
               <<Leaf("+", "+ -> +"), p[2].value, p[3].value>>), sa)

p_expression_prime_epsilon(p, sa) ==
    Done(Inner("expression_prime", "expression_prime -> eps", <<>>), sa)

p_term(p, sa) ==
    Done(Inner("term", "term -> factor term_prime", <<p[1].value, p[2].value>>), sa)

p_term_prime_multiply(p, sa) ==
    Done(Inner("term_prime", "term_prime -> * factor term_prime",
               <<Leaf("*", "* -> *"), p[2].value, p[3].value>>), sa)

p_term_prime_epsilon(p, sa) ==
    Done(Inner("term_prime", "term_prime -> eps", <<>>), sa)

p_factor_paren(p, sa) ==
    Done(Inner("factor", "factor -> ( expression )",
               <<Leaf("(", "( -> ("), p[2].value, Leaf(")", ") -> )")>>), sa)

p_factor_id(p, sa) ==
    LET node == Inner("factor", "factor -> ID", <<ValueLeaf("ID", p[1].value)>>)
        Checked(error) ==
            IF error # NoError THEN [sa EXCEPT !.semantic_errors = Append(@, error)]
            ELSE sa
    IN  Done(node, Checked(check_variable(sa.variables, p[1].value)))

\* p_factor_number, p_factor_decimal, p_factor_string, p_factor_bool
p_factor_literal(tok, p, sa) ==
    Done(Inner("factor", "factor -> " \o tok, <<ValueLeaf(tok, p[1].value)>>), sa)

\* p_if_statement, p_while_statement
p_if_while(name, kw, word, p, sa) ==
    Done(Inner(name, name \o " -> " \o kw \o " LPAREN condition RPAREN",
               <<Leaf(kw, kw \o " -> " \o word), Leaf("LPAREN", "LPAREN -> ("),
                 p[3].value, Leaf("RPAREN", "RPAREN -> )")>>), sa)

\* p_condition_gt, _lt, _ge, _le, _eq, _ne
p_condition(tok, sign, p, sa) ==
    Done(Inner("condition", "condition -> expression " \o tok \o " expression",
               <<p[1].value, Leaf(tok, tok \o " -> " \o sign), p[3].value>>), sa)

\* p.callable(pslice) for production n
callable(n, p, sa) ==
    CASE n = 1 -> p_statement("statement -> declaration", p, sa)
      [] n = 2 -> p_statement("statement -> expression", p, sa)
      [] n = 3 -> p_statement("statement -> if_statement", p, sa)
      [] n = 4 -> p_statement("statement -> while_statement", p, sa)
      [] n = 5 -> p_declaration("INT", "declaration -> INT ID ASSIGN expression",
                                "int", p, sa)
      [] n = 6 -> p_declaration("DOUBLE", "declaration -> DOUBLE ID ASSIGN expression",
                                "double", p, sa)
      [] n = 7 -> p_declaration("STRING_TYPE",
                                "declaration -> STRING_TYPE ID ASSIGN expression",
                                "string", p, sa)
      [] n = 8 -> p_declaration("BOOL_TYPE",
                                "declaration -> BOOL_TYPE ID ASSIGN expression",
                                "bool", p, sa)
      [] n = 9 -> p_declaration_no_init("INT", "declaration -> INT ID", "int", p, sa)
      [] n = 10 -> p_declaration_no_init("DOUBLE", "declaration -> DOUBLE ID",
                                         "double", p, sa)
      [] n = 11 -> p_declaration_no_init("STRING_TYPE", "declaration -> STRING_TYPE ID",
                                         "string", p, sa)
      [] n = 12 -> p_declaration_no_init("BOOL_TYPE", "declaration -> BOOL_TYPE ID",
                                         "bool", p, sa)
      [] n = 13 -> p_expression(p, sa)
      [] n = 14 -> p_expression_prime_plus(p, sa)
      [] n = 15 -> p_expression_prime_epsilon(p, sa)
      [] n = 16 -> p_term(p, sa)
      [] n = 17 -> p_term_prime_multiply(p, sa)
      [] n = 18 -> p_term_prime_epsilon(p, sa)
      [] n = 19 -> p_factor_paren(p, sa)
      [] n = 20 -> p_factor_id(p, sa)
      [] n = 21 -> p_factor_literal("NUMBER", p, sa)
      [] n = 22 -> p_factor_literal("DECIMAL", p, sa)
      [] n = 23 -> p_factor_literal("STRING", p, sa)
      [] n = 24 -> p_factor_literal("BOOL", p, sa)
      [] n = 25 -> p_if_while("if_statement", "IF", "if", p, sa)
      [] n = 26 -> p_if_while("while_statement", "WHILE", "while", p, sa)
      [] n = 27 -> p_condition("GT", ">", p, sa)
      [] n = 28 -> p_condition("LT", "<", p, sa)
      [] n = 29 -> p_condition("GE", ">=", p, sa)
      [] n = 30 -> p_condition("LE", "<=", p, sa)
      [] n = 31 -> p_condition("EQ", "==", p, sa)
      [] n = 32 -> p_condition("NE", "!=", p, sa)

(***************************************************************************)
(* parser.parse(input_string, lexer=self.lexer): PLY's LR driver.  A run   *)
(* is [statestack, symstack, lookahead, pos, lineno, errorcount, sa,       *)
(* parsing_successful, p_error_calls, at_error, result, done]; symstack    *)
(* holds the symbols above the $end PLY starts with; p_error_calls counts  *)
(* the calls of p_error and at_error holds the analyzer as the first call  *)
(* found it.  result is <<>> for None and <<node>> for a node.             *)
(***************************************************************************)

\* PLY's error_count: the tokens to shift after an error before p_error is called again.
error_count == 3

EndTok == [type |-> "$end", value |-> <<>>, lineno |-> 0]

\* A p_error that prints only.
p_error_printing(run) ==
    [run EXCEPT !.p_error_calls = @ + 1,
                !.at_error = IF run.p_error_calls = 0 THEN <<run.sa>> ELSE @]

\* p_error(p): it prints, and
p_error(run) ==
    [run EXCEPT !.parsing_successful = FALSE, !.p_error_calls = @ + 1,
                !.at_error = IF run.p_error_calls = 0 THEN <<run.sa>> ELSE @]

\* The run with its lookahead read, where the state reads one.
WithLookahead(data, run) ==
    LET state == run.statestack[Len(run.statestack)]
        Read(r) == [run EXCEPT !.lookahead = IF r.tok.type = None THEN EndTok ELSE r.tok,
                               !.pos = r.pos, !.lineno = r.lineno]
    IN  IF IsDefaulted(state) \/ run.lookahead.type # None THEN run
        ELSE Read(token(data, run.pos, run.lineno))

Shift(run, t) ==
    [run EXCEPT !.statestack = Append(@, t),
                !.symstack = Append(@, run.lookahead),
                !.lookahead = NoTok,
                !.errorcount = IF @ > 0 THEN @ - 1 ELSE @]

Reduce(run, n) ==
    LET prod == Productions[n]
        plen == Len(prod.rhs)
        k == Len(run.symstack)
        targ == SubSeq(run.symstack, k - plen + 1, k)
        below == SubSeq(run.statestack, 1, Len(run.statestack) - plen)
        Called(out) ==
            IF out.sa.raised THEN [run EXCEPT !.sa = out.sa, !.done = TRUE]
            ELSE [run EXCEPT !.sa = out.sa,
                             !.symstack =
                                 Append(SubSeq(run.symstack, 1, k - plen),
                                        [type |-> prod.name, value |-> out.node,
                                         lineno |-> 0]),
                             !.statestack =
                                 Append(below,
                                        GotoTable[below[Len(below)] + 1][prod.name])]
    IN  Called(callable(n, targ, run.sa))

Accept(run) ==
    [run EXCEPT !.result = <<run.symstack[Len(run.symstack)].value>>, !.done = TRUE]

\* No action for the lookahead.  p_error is called unless an error is being recovered
\* from.  At the end of the input the parse returns None.  Otherwise PLY makes an
\* error symbol the lookahead and pops the stack down to its first entry, since no
\* state has an action on error (the grammar has no error rule), and then drops the
\* lookahead and the token it had put back: the parse goes on in state 0 with the
\* next token.
SyntaxError(run) ==
    LET told == IF run.errorcount = 0 THEN p_error(run) ELSE run
        r == [told EXCEPT !.errorcount = error_count]
    IN  IF r.lookahead.type = "$end" THEN [r EXCEPT !.result = <<>>, !.done = TRUE]
        ELSE [r EXCEPT !.statestack = <<0>>, !.symstack = <<>>, !.lookahead = NoTok]

\* One turn of the loop of parse.
ParseStep(data, run0) ==
    LET Act(run, t) ==
            IF t > 0 THEN Shift(run, t)
            ELSE IF t < 0 THEN Reduce(run, -t)
            ELSE Accept(run)
        Step(run) ==
            LET state == run.statestack[Len(run.statestack)]
            IN  IF ~HasAction(state, run.lookahead.type) THEN SyntaxError(run)
                ELSE Act(run, ActionOf(state, run.lookahead.type))
    IN  Step(WithLookahead(data, run0))

RECURSIVE ParseLoop(_, _)
ParseLoop(data, run) == IF run.done THEN run ELSE ParseLoop(data, ParseStep(data, run))

\* parser.parse(data, lexer): lexer.input(data) puts the lexer at the start of data and
\* keeps its lineno.
parse(data, lineno, sa, parsing_successful) ==
    ParseLoop(data, [statestack |-> <<0>>, symstack |-> <<>>, lookahead |-> NoTok,
                     pos |-> 1, lineno |-> lineno, errorcount |-> 0, sa |-> sa,
                     parsing_successful |-> parsing_successful, p_error_calls |-> 0,
                     at_error |-> <<>>, result |-> <<>>, done |-> FALSE])

(***************************************************************************)
(* GrammarParser.  The state is the fields of one instance, with the       *)
(* lineno of its lexer, and what its last call returned.                   *)
(***************************************************************************)

VARIABLES
    variables,            \* semantic_analyzer.variables
    lexemes_tokens,       \* the (value, token_type, category) triples of the last input
    parse_tree,           \* <<>> for None, <<node>> for a tree
    parsing_successful,
    semantic_errors,
    input_expression,
    lineno,               \* lexer.lineno
    returned,             \* what the last call returned; None before the first call
    observed,             \* of the last call: how often p_error ran, whether an
                          \* exception was caught, what the parse began with, and the
                          \* input, status and tree the call before it had left
    request,              \* <<text>>: the text a caller is about to pass; <<>>: none
    derivation_steps      \* bnf_derivation.derivation_steps

vars == <<variables, lexemes_tokens, parse_tree, parsing_successful, semantic_errors,
          input_expression, lineno, returned, observed, request, derivation_steps>>

\* The categories parse_input_silent sorts the token types into.
Keywords == {"INT", "DOUBLE", "STRING_TYPE", "BOOL_TYPE", "IF", "ELSE", "WHILE",
             "RETURN", "VOID"}
Operators == {"PLUS", "MINUS", "MULTIPLY", "DIVIDE", "ASSIGN", "GT", "LT", "GE",
              "LE", "EQ", "NE"}
Delimiters == {"LPAREN", "RPAREN", "LBRACE", "RBRACE", "SEMICOLON"}
Literals == {"NUMBER", "DECIMAL", "STRING", "BOOL"}

token_category(type) ==
    IF type \in Keywords THEN "Keywords"
    ELSE IF type = "ID" THEN "Identifier"
    ELSE IF type \in Operators THEN "Operator"
    ELSE IF type \in Delimiters THEN "Delimiter"
    ELSE IF type \in Literals THEN "Literal"
    ELSE "Other"

token_type(type) ==
    CASE type = "INT" -> "int" [] type = "DOUBLE" -> "double"
      [] type = "STRING_TYPE" -> "string" [] type = "BOOL_TYPE" -> "bool"
      [] type = "IF" -> "if" [] type = "ELSE" -> "else" [] type = "WHILE" -> "while"
      [] type = "RETURN" -> "return" [] type = "VOID" -> "void"
      [] type = "ID" -> "identifier"
      [] type = "PLUS" -> "+" [] type = "MINUS" -> "-" [] type = "MULTIPLY" -> "*"
      [] type = "DIVIDE" -> "/" [] type = "ASSIGN" -> "=" [] type = "GT" -> ">"
      [] type = "LT" -> "<" [] type = "GE" -> ">=" [] type = "LE" -> "<="
      [] type = "EQ" -> "==" [] type = "NE" -> "!="
      [] type = "LPAREN" -> "(" [] type = "RPAREN" -> ")" [] type = "LBRACE" -> "{"
      [] type = "RBRACE" -> "}" [] type = "SEMICOLON" -> ";"
      [] type = "NUMBER" -> "integer" [] type = "DECIMAL" -> "decimal"
      [] type = "STRING" -> "string" [] type = "BOOL" -> "boolean"
      [] OTHER -> type

\* The loop that fills lexemes_tokens.
CollectTokens(data, line) ==
    LET Triples(toks) ==
            [i \in 1..Len(toks) |->
                [value |-> toks[i].value, token_type |-> token_type(toks[i].type),
                 category |-> token_category(toks[i].type)]]
    IN  Triples(Tokens(data, 1, line))

\* `"not declared" in error`.  Of the messages only that of check_variable holds the
\* words: the names put into a message are identifiers and type names, without a space.
HoldsNotDeclared(error) == error.kind = "not declared"

NothingObserved ==
    [p_error |-> 0, raised |-> FALSE, at_error |-> <<>>,
     begin |-> [variables |-> NoVariables, semantic_errors |-> <<>>],
     earlier |-> [input_expression |-> <<>>, returned |-> None, parse_tree |-> <<>>]]

\* GrammarParser.__init__
NewGrammarParser ==
    /\ variables = NoVariables
    /\ lexemes_tokens = <<>>
    /\ parse_tree = <<>>
    /\ parsing_successful = FALSE
    /\ semantic_errors = <<>>
    /\ input_expression = <<>>
    /\ lineno = 1
    /\ returned = None
    /\ observed = NothingObserved
    /\ derivation_steps = <<>>

\* The largest lineno the model lets the lexer reach.
MaxLineno == 3

\* `self.semantic_errors = [error for error in self.semantic_errors
\*                          if not ("not declared" in error)]`
WithoutNotDeclared(errors) == SelectSeq(errors, LAMBDA error : ~HoldsNotDeclared(error))

\* A parse_tree that is never assigned.
SetParseTree_never(tree, result, successful) == tree

\* `if result is not None and self.parsing_successful: self.parse_tree = result`:
\* parse_tree after it.
SetParseTree(tree, result, successful) ==
    IF result # <<>> /\ successful THEN result ELSE tree

\* The status the call returns when no exception was caught.
Status(successful, errors, result) ==
    IF ~successful THEN "syntax_error"
    ELSE IF errors # <<>> THEN "semantic_error"
    ELSE IF result # <<>> THEN "success"
    ELSE "syntax_error"

\* What the parse of a call begins with: the reset analyzer and the emptied error list.
Begin(old) == [variables |-> reset(old), semantic_errors |-> <<>>, raised |-> FALSE]

\* parse_input_silent(input_string)
parse_input_silent(input_string) ==
    \E run \in {parse(input_string, LinenoAfter(input_string, 1, lineno),
                      Begin(variables), TRUE)} :
        /\ run.lineno <= MaxLineno
        /\ UNCHANGED derivation_steps
        /\ input_expression' = input_string
        /\ lexemes_tokens' = CollectTokens(input_string, lineno)
        /\ variables' = run.sa.variables
        /\ lineno' = run.lineno
        /\ observed' = [p_error |-> run.p_error_calls, raised |-> run.sa.raised,
                        at_error |-> run.at_error,
                        begin |-> [variables |-> Begin(variables).variables,
                                   semantic_errors |-> Begin(variables).semantic_errors],
                        earlier |-> [input_expression |-> input_expression,
                                     returned |-> returned, parse_tree |-> parse_tree]]
        /\ IF run.sa.raised
           THEN /\ parsing_successful' = FALSE
                /\ semantic_errors' = run.sa.semantic_errors
                /\ parse_tree' = parse_tree
                /\ returned' = "syntax_error"
           ELSE /\ parsing_successful' = run.parsing_successful
                /\ semantic_errors' = WithoutNotDeclared(run.sa.semantic_errors)
                /\ parse_tree' = SetParseTree(parse_tree, run.result,
                                              run.parsing_successful)
                /\ returned' = Status(run.parsing_successful,
                                      WithoutNotDeclared(run.sa.semantic_errors),
                                      run.result)

(***************************************************************************)
(* The inputs.  A text is written as its words, joined by one space.       *)
(***************************************************************************)

RECURSIVE Render(_)
Render(words) ==
    IF words = <<>> THEN <<>>
    ELSE IF Len(words) = 1 THEN words[1]
    ELSE words[1] \o <<" ">> \o Render(Tail(words))

Str(chars) == <<Quote>> \o chars \o <<Quote>>

TypeWords == {int_kw, double_kw, string_kw, bool_kw}

\* An integer, a decimal, a string and a boolean literal.
LiteralWords == {<<"1">>, <<"2", ".", "5">>, Str(<<"a">>), true_kw}

OpWords == {<<"+">>, <<"*">>}

\* The words that lex to a token no production uses.
UnusedWords == {<<"-">>, <<"/">>, <<"{">>, <<"}">>, <<";">>, else_kw, return_kw, void_kw}

\* The words of the token sequences tried in every order.
SoupWords == {int_kw, <<"x">>, <<"=">>, <<"5">>, <<"+">>, <<"(">>, <<")">>, <<"-">>}

\* The longest token sequence tried in every order.
MaxToks == 3

\* The most operands of a generated initializer.
MaxOperands == 3

Soup == UNION {[1..k -> SoupWords] : k \in 1..MaxToks}

\* operand (operator operand)*, with k operands
Interleave(operands, operators) ==
    [i \in 1..(2 * Len(operands) - 1) |->
        IF i % 2 = 1 THEN operands[(i + 1) \div 2] ELSE operators[i \div 2]]

ExprWords ==
    UNION {{Interleave(a, o) : a \in [1..k -> LiteralWords], o \in [1..(k - 1) -> OpWords]}
           : k \in 1..MaxOperands}

\* T x = e
DeclWords == {<<t, <<"x">>, <<"=">>>> \o e : t \in TypeWords, e \in ExprWords}

\* Statements of each kind, and each with one word put in or left out.
BaseWords ==
    {<<int_kw, <<"x">>, <<"=">>, <<"5">>>>,
     <<double_kw, <<"x">>>>,
     <<<<"y">>, <<"+">>, <<"1">>, <<"*">>, <<"(">>, <<"x">>, <<")">>>>,
     <<if_kw, <<"(">>, <<"x">>, <<">">>, <<"5">>, <<")">>>>,
     <<while_kw, <<"(">>, <<"1">>, <<"<", "=">>, <<"y">>, <<")">>>>}

InsertAt(ws, k, w) == SubSeq(ws, 1, k) \o <<w>> \o SubSeq(ws, k + 1, Len(ws))
RemoveAt(ws, k) == SubSeq(ws, 1, k - 1) \o SubSeq(ws, k + 1, Len(ws))

EditedWords ==
    BaseWords
    \cup UNION {{InsertAt(ws, k, w) : k \in 0..Len(ws),
                                      w \in UnusedWords \cup {<<")">>, <<"5">>}}
                : ws \in BaseWords}
    \cup UNION {{RemoveAt(ws, k) : k \in 1..Len(ws)} : ws \in BaseWords}

\* Texts whose string literal holds one of the texts the analyzer looks for.
IdArrow == <<"I", "D", " ", Arrow>>
NumberArrow == <<"N", "U", "M", "B", "E", "R", " ", Arrow>>

OddWords ==
    {<<int_kw, <<"x">>, <<"=">>, Str(IdArrow)>>,
     <<int_kw, <<"x">>, <<"=">>, Str(IdArrow \o <<" ", "y">>)>>,
     <<int_kw, <<"x">>, <<"=">>, Str(NumberArrow)>>,
     <<string_kw, <<"x">>, <<"=">>, Str(NumberArrow)>>,
     <<<<"y">>, <<"+">>, Str(IdArrow)>>,
     <<int_kw, <<"x">>, <<"=">>, <<"y">>, <<"+">>, Str(IdArrow)>>,
     <<int_kw, <<"x">>, <<"=">>, <<"5">>, <<")">>, int_kw, <<"y">>>>,
     <<double_kw, <<"x">>, <<"=">>, <<"(">>, <<"1">>, <<"+">>, <<"2", ".", "5">>, <<")">>,
       <<"*">>, <<"2">>>>,
     <<string_kw, <<"x">>, <<"=">>, <<"2", ".", "5">>, <<")">>>>,
     <<<<"5">>, <<"@">>>>}

\* Declarations with a boolean literal, alone and under an operator.
BoolWords ==
    {<<t, <<"x">>, <<"=">>, b>> : t \in TypeWords, b \in {true_kw, false_kw}}
    \cup {<<int_kw, <<"x">>, <<"=">>, <<"1">>, <<"+">>, false_kw>>,
          <<string_kw, <<"s">>, <<"=">>, Str(<<"a">>), <<"*">>, true_kw>>}

\* The texts the documents of the program name.
NamedWords ==
    {<<int_kw, <<"x">>, <<"=">>, <<"5">>>>,
     <<int_kw, <<"=">>, <<"5">>>>,
     <<int_kw, <<"x">>, <<"=">>, <<"3", ".", "1", "4">>>>,
     <<double_kw, <<"p", "i">>, <<"=">>, <<"3">>>>,
     <<double_kw, <<"d">>, <<"=">>, <<"1">>, <<"*">>, <<"2">>>>,
     <<double_kw, <<"d">>, <<"=">>, <<"1">>, <<"+">>, <<"2", ".", "5">>>>,
     <<string_kw, <<"s">>, <<"=">>, Str(<<"a">>), <<"+">>, Str(<<"b">>)>>,
     <<bool_kw, <<"b">>, <<"=">>, true_kw>>,
     <<int_kw, <<"x">>, <<"=">>, <<"3">>, <<"+">>, Str(<<"a">>)>>}

\* Statements that name an identifier no statement declared.
UndeclaredWords ==
    {<<int_kw, <<"x">>, <<"=">>, <<"y">>>>,
     <<int_kw, <<"x">>, <<"=">>, <<"y">>, <<"+">>, <<"1">>>>,
     <<int_kw, <<"x">>, <<"=">>, <<"1">>, <<"+">>, <<"y">>>>,
     <<double_kw, <<"x">>, <<"=">>, <<"y">>, <<"*">>, <<"2", ".", "5">>>>,
     <<string_kw, <<"s">>, <<"=">>, Str(<<"a">>), <<"+">>, <<"y">>>>,
     <<bool_kw, <<"b">>, <<"=">>, <<"y">>>>,
     <<if_kw, <<"(">>, <<"y">>, <<">">>, <<"1">>, <<")">>>>,
     <<while_kw, <<"(">>, <<"y">>, <<"!", "=">>, <<"z">>, <<")">>>>,
     <<<<"y">>, <<"*">>, <<"z">>>>}

\* Texts with a character no rule matches, or a quote or a point, at any place.
LexicalTexts ==
    UNION {{InsertAt(text, k, c) : k \in 0..Len(text), c \in {"@", "!", ".", Quote}}
           : text \in {Render(<<int_kw, <<"x">>, <<"=">>, <<"5">>>>),
                       Render(<<<<"x">>, <<"*">>, <<"2", ".", "5">>>>),
                       Render(<<if_kw, <<"(">>, <<"x">>, <<">", "=">>, <<"1">>, <<")">>>>),
                       Render(<<string_kw, <<"s">>, <<"=">>, Str(<<"a">>)>>)}}

\* Conditions and declarations written with every run of one to three of the
\* characters of the comparison operators.
CompareRuns ==
    UNION {[1..n -> {">", "<", "=", "!"}] : n \in 1..3}
    \cup {<<">", " ", "=">>, <<"=", " ", "=">>, <<"<", " ", "=">>, <<"!", " ", "=">>}

CompareTexts ==
    {Render(<<if_kw, <<"(">>, <<"x">>, op, <<"1">>, <<")">>>>) : op \in CompareRuns}
    \cup {<<"x">> \o op \o <<"y">> : op \in CompareRuns}
    \cup {Render(<<int_kw, <<"x">>, op, <<"5">>>>) : op \in CompareRuns}

\* Declarations with a line end before the identifier or after it.
NewlineTexts ==
    {<<"i", "n", "t", Newline, "x">>,
     <<"i", "n", "t", " ", "x", Newline>>,
     <<"d", "o", "u", "b", "l", "e", Newline, "d", " ", "=", " ", "1">>}

\* Expressions and conditions over operands that the table of valid operations
\* rejects, and a declaration with its own name in the initializer for each type.
UntypedWords ==
    {<<<<"3">>, <<"+">>, Str(<<"a">>)>>,
     <<Str(<<"a">>), <<"*">>, Str(<<"b">>)>>,
     <<true_kw, <<"+">>, <<"1">>, <<"*">>, <<"2", ".", "5">>>>,
     <<if_kw, <<"(">>, <<"1">>, <<">">>, Str(<<"a">>), <<")">>>>,
     <<if_kw, <<"(">>, <<"1">>, <<"+">>, Str(<<"a">>), <<"=", "=">>, true_kw, <<")">>>>,
     <<while_kw, <<"(">>, Str(<<"a">>), <<"*">>, <<"2">>, <<"<", "=">>, <<"y">>, <<")">>>>,
     <<while_kw, <<"(">>, <<"(">>, <<"x">>, <<")">>, <<"!", "=">>, Str(IdArrow), <<")">>>>}
    \cup {<<t, <<"x">>, <<"=">>, <<"x">>>> : t \in TypeWords}
    \cup {<<int_kw, <<"x">>, <<"=">>, <<"x">>, <<"+">>, <<"1">>>>,
          <<string_kw, <<"x">>, <<"=">>, <<"x">>, <<"*">>, <<"x">>>>,
          <<double_kw, <<"x">>, <<"=">>, <<"(">>, <<"x">>, <<")">>>>,
          <<bool_kw, <<"x">>, <<"=">>, <<"x">>, <<"+">>, <<"x">>>>}

OnceInputs ==
    {Render(ws) : ws \in Soup \cup DeclWords \cup EditedWords \cup OddWords
                         \cup BoolWords \cup NamedWords \cup UndeclaredWords}
    \cup LexicalTexts \cup CompareTexts \cup NewlineTexts
    \cup {Render(ws) : ws \in UntypedWords}

\* The texts passed, in any order and any number of times, to one instance.
SessionInputs ==
    {Render(ws) : ws \in
        {<<int_kw, <<"x">>, <<"=">>, <<"5">>>>,
         <<int_kw, <<"x">>, <<"=">>, <<"3", ".", "1", "4">>>>,
         <<double_kw, <<"p", "i">>, <<"=">>, <<"3">>>>,
         <<string_kw, <<"s">>, <<"=">>, Str(<<"a">>), <<"+">>, Str(<<"b">>)>>,
         <<bool_kw, <<"b">>, <<"=">>, true_kw>>,
         <<int_kw, <<"x">>, <<"=">>, <<"3">>, <<"+">>, Str(<<"a">>)>>,
         <<int_kw, <<"=">>, <<"5">>>>,
         <<<<"y">>, <<"+">>, <<"1">>>>,
         <<double_kw, <<"d">>>>,
         <<if_kw, <<"(">>, <<"x">>, <<">">>, <<"5">>, <<")">>>>,
         <<int_kw, <<"x">>, <<"=">>, <<"5">>, <<")">>, int_kw, <<"y">>>>,
         <<int_kw, <<"x">>, <<"=">>, Str(IdArrow)>>,
         <<<<"x">>, <<Newline>>, <<"*">>, <<"2">>>>,
         <<<<"5">>, <<"-">>>>,
         <<while_kw, <<"(">>, <<"x">>, <<"<">>, <<"y">>, <<")">>>>,
         <<string_kw, <<"x">>, <<"=">>, <<"2", ".", "5">>, <<")">>>>}}

(***************************************************************************)
(* Spec: one GrammarParser instance analyses texts one after the other.    *)
(* SpecOnce: an instance is made for one text and analyses it.             *)
(***************************************************************************)

Init ==
    /\ NewGrammarParser
    /\ request = <<>>

\* A call of parse_input_silent by the owner of the instance.
Analyze ==
    \E input_string \in SessionInputs :
        /\ parse_input_silent(input_string)
        /\ UNCHANGED request

Next == Analyze

Spec == Init /\ [][Next]_vars

InitOnce ==
    /\ NewGrammarParser
    /\ request \in {<<text>> : text \in OnceInputs}

\* The one call of parse_input_silent on the new instance.
AnalyzeOnce ==
    /\ request # <<>>
    /\ parse_input_silent(request[1])
    /\ request' = <<>>

NextOnce == AnalyzeOnce

SpecOnce == InitOnce /\ [][NextOnce]_vars

(***************************************************************************)
(* SpecFold: _analyze_expression_with_operators is called with a           *)
(* dictionary of operands and operators; request is the dictionary and     *)
(* returned is what the call returns.                                      *)
(***************************************************************************)

\* The most operators of a dictionary passed to the fold.
MaxOperators == 3

OperandTypes == {"int", "double", "string", "bool"}

FoldInputs ==
    {[operands |-> a, operators |-> o] :
        a \in UNION {[1..k -> OperandTypes] : k \in 2..MaxOperands},
        o \in UNION {[1..k -> {"+", "*"}] : k \in 0..MaxOperators}}

InitFold ==
    /\ NewGrammarParser
    /\ request \in FoldInputs

AnalyzeFold ==
    /\ returned = None
    /\ returned' = _analyze_expression_with_operators(request.operands,
                                                      request.operators)
    /\ UNCHANGED <<variables, lexemes_tokens, parse_tree, parsing_successful,
                   semantic_errors, input_expression, lineno, observed, request, derivation_steps>>

NextFold == AnalyzeFold

SpecFold == InitFold /\ [][NextFold]_vars

(***************************************************************************)
(* What the properties below are stated with.                              *)
(***************************************************************************)

\* The tokens of the last input, as the lexer reads them.
InputTokens == Tokens(input_expression, 1, 1)

TypesOf(toks) == [i \in 1..Len(toks) |-> toks[i].type]

\* The grammar of the p_* rules, read top down: the positions at which a factor, a
\* term, an expression or a condition that starts at position i of the token types ts
\* can end (the position after its last token).
RECURSIVE ExpressionEnds(_, _)
RECURSIVE TermEnds(_, _)
RECURSIVE FactorEnds(_, _)

At(ts, j, types) == j <= Len(ts) /\ ts[j] \in types

FactorEnds(ts, i) ==
    IF At(ts, i, {"ID", "NUMBER", "DECIMAL", "STRING", "BOOL"}) THEN {i + 1}
    ELSE IF At(ts, i, {"LPAREN"})
         THEN {j + 1 : j \in {k \in ExpressionEnds(ts, i + 1) : At(ts, k, {"RPAREN"})}}
    ELSE {}

TermEnds(ts, i) ==
    LET More(ends) ==
            ends \cup UNION {TermEnds(ts, j + 1) :
                                j \in {k \in ends : At(ts, k, {"MULTIPLY"})}}
    IN  More(FactorEnds(ts, i))

ExpressionEnds(ts, i) ==
    LET More(ends) ==
            ends \cup UNION {ExpressionEnds(ts, j + 1) :
                                j \in {k \in ends : At(ts, k, {"PLUS"})}}
    IN  More(TermEnds(ts, i))

ConditionEnds(ts, i) ==
    UNION {ExpressionEnds(ts, j + 1) :
              j \in {k \in ExpressionEnds(ts, i) :
                        At(ts, k, {"GT", "LT", "GE", "LE", "EQ", "NE"})}}

TypeKeywords == {"INT", "DOUBLE", "STRING_TYPE", "BOOL_TYPE"}

\* declaration : T ID ASSIGN expression
IsInitDeclaration(ts) ==
    /\ At(ts, 1, TypeKeywords) /\ At(ts, 2, {"ID"}) /\ At(ts, 3, {"ASSIGN"})
    /\ Len(ts) + 1 \in ExpressionEnds(ts, 4)

\* statement : declaration | expression | if_statement | while_statement
Sentence(ts) ==
    \/ IsInitDeclaration(ts)
    \/ At(ts, 1, TypeKeywords) /\ At(ts, 2, {"ID"}) /\ Len(ts) = 2
    \/ Len(ts) + 1 \in ExpressionEnds(ts, 1)
    \/ /\ At(ts, 1, {"IF", "WHILE"}) /\ At(ts, 2, {"LPAREN"})
       /\ At(ts, Len(ts), {"RPAREN"})
       /\ Len(ts) \in ConditionEnds(ts, 3)

\* The tokens a tree derives, read off its leaves from left to right: <<type, text>>,
\* the text being that of a token with a value and empty otherwise.
LeafType(head) ==
    CASE head = "+" -> "PLUS" [] head = "*" -> "MULTIPLY"
      [] head = "(" -> "LPAREN" [] head = ")" -> "RPAREN"
      [] OTHER -> head

RECURSIVE Frontier(_)
Frontier(nodes) ==
    IF nodes = <<>> THEN <<>>
    ELSE LET node == Head(nodes)
             here == IF node.children # <<>> THEN Frontier(node.children)
                     ELSE IF node.value.head \in {"expression_prime", "term_prime"}
                          THEN <<>>
                     ELSE <<<<LeafType(node.value.head), node.value.arg>>>>
         IN  here \o Frontier(Tail(nodes))

ValueTokens == {"ID", "NUMBER", "DECIMAL", "STRING", "BOOL"}

TokenPairs(toks) ==
    [i \in 1..Len(toks) |->
        <<toks[i].type, IF toks[i].type \in ValueTokens THEN toks[i].value ELSE <<>>>>]

IntX5 == Render(<<int_kw, <<"x">>, <<"=">>, <<"5">>>>)

\* C1: in any sequence of parse_input_silent calls on one instance, each parse begins
\* with an empty symbol table and an empty error list, so the symbol table a call
\* leaves holds only identifiers of that call's input, and "int x = 5" yields success
\* every time it is analysed, also right after an analysis of the same text.
C1_EachParseBeginsEmpty ==
    returned # None =>
        /\ observed.begin.variables = NoVariables
        /\ observed.begin.semantic_errors = <<>>
        /\ \A name \in DOMAIN variables :
               \E i \in 1..Len(InputTokens) :
                   InputTokens[i].type = "ID" /\ InputTokens[i].value = name
        /\ (input_expression = IntX5 => returned = "success")

\* "int x = 5" analysed with success right after "int x = 5" was analysed with success.
C1_SameTextTwice ==
    /\ returned = "success"
    /\ input_expression = IntX5
    /\ observed.earlier.returned = "success"
    /\ observed.earlier.input_expression = IntX5
    /\ <<"x">> \in DOMAIN variables

\* C2: parse_input_silent returns syntax_error exactly when the tokens of the input
\* are not a complete sentence of the grammar from statement; a token without a
\* production in the input always gives syntax_error, and so does "int = 5".
C2_SyntaxErrorIffNotSentence ==
    returned # None =>
        /\ (returned = "syntax_error") <=> ~Sentence(TypesOf(InputTokens))
        /\ (\E i \in 1..Len(InputTokens) :
                InputTokens[i].type \in {"MINUS", "DIVIDE", "LBRACE", "RBRACE",
                                         "SEMICOLON", "ELSE", "RETURN", "VOID"})
             => returned = "syntax_error"
        /\ (input_expression = Render(<<int_kw, <<"=">>, <<"5">>>>)
             => returned = "syntax_error")

\* C3: after a call that returns syntax_error parse_tree is None, whatever calls came
\* before it on the instance.
C3_NoTreeAfterSyntaxError ==
    returned = "syntax_error" => parse_tree = <<>>

\* C4: a call returns one of success, syntax_error and semantic_error; when p_error
\* ran or an exception was caught it returns syntax_error whatever semantic_errors
\* holds; it returns semantic_error only when neither happened, the tokens are a
\* sentence and the filtered semantic_errors is not empty.
C4_StatusOfACall ==
    returned # None =>
        /\ returned \in {"success", "syntax_error", "semantic_error"}
        /\ (observed.p_error > 0 \/ observed.raised => returned = "syntax_error")
        /\ (returned = "semantic_error" =>
                /\ observed.p_error = 0 /\ ~observed.raised
                /\ Sentence(TypesOf(InputTokens))
                /\ semantic_errors # <<>>
                /\ \A i \in 1..Len(semantic_errors) :
                       ~HoldsNotDeclared(semantic_errors[i]))

\* A call in which p_error ran and that left a semantic error that is not filtered.
C4_BothKindsOfError ==
    /\ returned = "syntax_error"
    /\ observed.p_error > 0
    /\ \E i \in 1..Len(semantic_errors) : ~HoldsNotDeclared(semantic_errors[i])

\* C5: when a call finds semantic errors and no syntax error it returns
\* semantic_error and parse_tree is the derivation tree of the input of that call: a
\* statement whose leaves are the tokens of the input.
C5_TreeWithSemanticError ==
    /\ returned = "semantic_error" =>
           /\ parse_tree # <<>>
           /\ parse_tree[1].value.head = "statement"
           /\ Frontier(parse_tree) = TokenPairs(InputTokens)
    /\ (/\ returned # None
        /\ observed.p_error = 0 /\ ~observed.raised
        /\ semantic_errors # <<>>) => returned = "semantic_error"

\* A semantic_error after a success on another text, which had left its tree.
C5_SemanticErrorAfterSuccess ==
    /\ returned = "semantic_error"
    /\ observed.earlier.returned = "success"
    /\ observed.earlier.parse_tree # <<>>
    /\ observed.earlier.parse_tree # parse_tree

(***************************************************************************)
(* Declarations `T id = e` with e built from literals, and the type the    *)
(* documents give e: each literal has the type of its token, and the types *)
(* are folded from left to right under the operators between them.         *)
(***************************************************************************)

ValidTriple(t1, op, t2) ==
    \/ t1 \in {"int", "double"} /\ t2 \in {"int", "double"} /\ op \in {"+", "*"}
    \/ t1 = "string" /\ t2 = "string" /\ op = "+"

Promoted(t1, t2) ==
    IF t1 = "double" \/ t2 = "double" THEN "double"
    ELSE IF t1 = "string" THEN "string"
    ELSE "int"

\* The running type before operator i, or "type_error" when a triple before it is
\* not valid.
RECURSIVE RunningType(_, _, _)
RunningType(operands, operators, i) ==
    IF i = 1 THEN operands[1]
    ELSE LET Then(before) ==
                 IF before = "type_error" THEN "type_error"
                 ELSE IF ~ValidTriple(before, operators[i - 1], operands[i])
                      THEN "type_error"
                 ELSE Promoted(before, operands[i])
         IN  Then(RunningType(operands, operators, i - 1))

\* The triples the fold meets: operator i with the operand after it.
Triples(operands, operators) ==
    IF Len(operators) < Len(operands) - 1 THEN Len(operators) ELSE Len(operands) - 1

LeftFold(operands, operators) ==
    RunningType(operands, operators, Triples(operands, operators) + 1)

\* The first operator whose triple is not valid; 0 when there is none.
FirstInvalid(operands, operators) ==
    LET bad == {i \in 1..Triples(operands, operators) :
                   RunningType(operands, operators, i + 1) = "type_error"}
    IN  IF bad = {} THEN 0 ELSE CHOOSE i \in bad : \A j \in bad : i <= j

LiteralType(type) ==
    CASE type = "NUMBER" -> "int" [] type = "DECIMAL" -> "double"
      [] type = "STRING" -> "string" [] type = "BOOL" -> "bool"

KeywordType(type) ==
    CASE type = "INT" -> "int" [] type = "DOUBLE" -> "double"
      [] type = "STRING_TYPE" -> "string" [] type = "BOOL_TYPE" -> "bool"

LiteralTokens == {"NUMBER", "DECIMAL", "STRING", "BOOL"}

\* Of the last input, when it is a declaration with an initializer: the tokens of the
\* initializer without the parentheses, its operand types and its operators.
InitializerTokens ==
    SelectSeq(SubSeq(InputTokens, 4, Len(InputTokens)),
              LAMBDA tok : tok.type \notin {"LPAREN", "RPAREN"})

InitializerOperands ==
    LET toks == SelectSeq(InitializerTokens, LAMBDA tok : tok.type \in LiteralTokens)
    IN  [i \in 1..Len(toks) |-> LiteralType(toks[i].type)]

InitializerOperators ==
    LET toks == SelectSeq(InitializerTokens,
                          LAMBDA tok : tok.type \in {"PLUS", "MULTIPLY"})
    IN  [i \in 1..Len(toks) |-> IF toks[i].type = "PLUS" THEN "+" ELSE "*"]

InitializerType ==
    IF Len(InitializerOperands) = 1 THEN InitializerOperands[1]
    ELSE LeftFold(InitializerOperands, InitializerOperators)

\* The last input is `T id = e`, e built from literals of the given tokens with +, *
\* and parentheses.
LiteralDeclaration(literals) ==
    /\ returned # None
    /\ IsInitDeclaration(TypesOf(InputTokens))
    /\ \A i \in 4..Len(InputTokens) :
           InputTokens[i].type \in literals \cup {"PLUS", "MULTIPLY", "LPAREN", "RPAREN"}

DeclaredType == KeywordType(InputTokens[1].type)
DeclaredName == InputTokens[2].value

\* The node of the initializer in the tree of a declaration.
Initializer == parse_tree[1].children[1].children[4]

\* The status of the declarations the documents name.
NamedDeclarations ==
    {<<Render(<<int_kw, <<"x">>, <<"=">>, <<"3", ".", "1", "4">>>>), "semantic_error">>,
     <<Render(<<double_kw, <<"p", "i">>, <<"=">>, <<"3">>>>), "semantic_error">>,
     <<Render(<<double_kw, <<"d">>, <<"=">>, <<"1">>, <<"*">>, <<"2">>>>),
       "semantic_error">>,
     <<Render(<<double_kw, <<"d">>, <<"=">>, <<"1">>, <<"+">>, <<"2", ".", "5">>>>),
       "success">>,
     <<Render(<<string_kw, <<"s">>, <<"=">>, Str(<<"a">>), <<"+">>, Str(<<"b">>)>>),
       "success">>}

\* C6: for a declaration `T id = e`, e built from integer, decimal and string
\* literals with +, * and parentheses, the status is success exactly when the type of
\* e is T; when it is another type the status is semantic_error, with the message that
\* a value of the type of e cannot be assigned to a variable of type T; the
\* declarations the documents name have the status they give.
C6_ExactTypeAtDeclaration ==
    /\ LiteralDeclaration({"NUMBER", "DECIMAL", "STRING"}) =>
           /\ (returned = "success") <=> (InitializerType = DeclaredType)
           /\ InitializerType # DeclaredType => returned = "semantic_error"
           /\ InitializerType \notin {DeclaredType, "type_error"} =>
                  semantic_errors =
                      <<CannotAssignMsg(type_names(InitializerType),
                                        type_names(DeclaredType), DeclaredName)>>
    /\ \A named \in NamedDeclarations :
           returned # None /\ input_expression = named[1] => returned = named[2]

\* C7: the type get_expression_type computes for a single boolean literal is bool, so
\* `bool id = true` yields success and `T id = true` with T int, double or string
\* yields semantic_error with the message that a boolean value cannot be assigned.
C7_BooleanLiteralIsBool ==
    (LiteralDeclaration({"BOOL"}) /\ Len(InputTokens) = 4) =>
        /\ parse_tree # <<>>
        /\ get_expression_type(variables, Initializer) = "bool"
        /\ DeclaredType = "bool" => returned = "success"
        /\ DeclaredType # "bool" =>
               /\ returned = "semantic_error"
               /\ semantic_errors =
                      <<CannotAssignMsg("boolean", type_names(DeclaredType),
                                        DeclaredName)>>

\* Operator i of the initializer has an operand of the given type beside it.
Beside(i, type) ==
    /\ InitializerTokens[i].type \in {"PLUS", "MULTIPLY"}
    /\ \/ i > 1 /\ InitializerTokens[i - 1].type = type
       \/ i < Len(InitializerTokens) /\ InitializerTokens[i + 1].type = type

\* C8: a declaration whose initializer applies + or * to a boolean literal, or * to a
\* string literal, has an initializer of type type_error and yields semantic_error
\* with the message that the operation cannot be performed.
C8_InvalidOperands ==
    (/\ LiteralDeclaration(LiteralTokens)
     /\ \E i \in 1..Len(InitializerTokens) :
            \/ Beside(i, "BOOL")
            \/ InitializerTokens[i].type = "MULTIPLY" /\ Beside(i, "STRING")) =>
        /\ returned = "semantic_error"
        /\ parse_tree # <<>>
        /\ get_expression_type(variables, Initializer) = "type_error"
        /\ \E i \in 1..Len(semantic_errors) : semantic_errors[i].kind = "Cannot perform"

C10_MessageNamesFirstInvalid ==
    /\ (/\ LiteralDeclaration(LiteralTokens)
        /\ parse_tree # <<>>
        /\ get_expression_type(variables, Initializer) = "type_error") =>
           LET k == FirstInvalid(InitializerOperands, InitializerOperators)
           IN  /\ k > 0
               /\ \E left \in {InitializerOperands[k],
                               RunningType(InitializerOperands, InitializerOperators, k)} :
                      semantic_errors =
                          <<CannotPerformMsg(InitializerOperators[k], type_names(left),
                                             type_names(InitializerOperands[k + 1]),
                                             DeclaredName)>>
    /\ (/\ returned # None
        /\ input_expression =
               Render(<<int_kw, <<"x">>, <<"=">>, <<"3">>, <<"+">>, Str(<<"a">>)>>)) =>
           semantic_errors = <<CannotPerformMsg("+", "integer", "string", <<"x">>)>>

\* The identifiers an expression, a condition or an initializer of the last input
\* names: every ID token but the one a declaration declares.
NamedIdentifiers ==
    {InputTokens[i].value :
        i \in {j \in 1..Len(InputTokens) :
                  /\ InputTokens[j].type = "ID"
                  /\ ~(j = 2 /\ InputTokens[1].type \in TypeKeywords)}}

\* The last input is a sentence that names identifiers, none of them declared, and
\* has no other defect: when it is a declaration with an initializer, the literals of
\* the initializer have the declared type, int, double or string, and a string
\* declaration has no *.
OnlyUndeclared ==
    /\ returned # None
    /\ Sentence(TypesOf(InputTokens))
    /\ NamedIdentifiers # {}
    /\ IsInitDeclaration(TypesOf(InputTokens)) =>
           /\ DeclaredName \notin NamedIdentifiers
           /\ \A i \in 4..Len(InputTokens) :
                  /\ InputTokens[i].type # "BOOL"
                  /\ InputTokens[i].type \in LiteralTokens =>
                         LiteralType(InputTokens[i].type) = DeclaredType
                  /\ InputTokens[i].type = "MULTIPLY" => DeclaredType # "string"
                  /\ InputTokens[i].type = "STRING" =>
                         ~Contains(<<Arrow>>, InputTokens[i].value)

\* C11: a sentence whose only defect is that it names identifiers never declared, in
\* an expression statement, a condition or an initializer, alone or beside other
\* operands, yields success and leaves semantic_errors empty; and no call leaves a
\* message that a variable is not declared in semantic_errors.
C11_UndeclaredIsAccepted ==
    /\ OnlyUndeclared => returned = "success" /\ semantic_errors = <<>>
    /\ returned # None =>
           \A i \in 1..Len(semantic_errors) : ~HoldsNotDeclared(semantic_errors[i])

(***************************************************************************)
(* SpecDeclare: a declaration is parsed, and so reduced by its p_*         *)
(* callback, against an analyzer that is not reset before it and holds the *)
(* entries of declarations reduced earlier.  request is [table, text]: the *)
(* entries the analyzer holds and the text of the declaration.             *)
(***************************************************************************)

\* The largest line_no of an entry the analyzer holds at the start.
MaxEntryLine == 2

DeclareNames == {<<"x">>, <<"y">>}

Entries ==
    [type : OperandTypes, line_no : 1..MaxEntryLine, initialized : BOOLEAN]

DeclareTables ==
    UNION {[names -> Entries] : names \in SUBSET DeclareNames}

DeclareTexts ==
    {Render(<<t, n>>) : t \in TypeWords, n \in DeclareNames}
    \cup {Render(<<t, n, <<"=">>, e>>) :
             t \in TypeWords, n \in DeclareNames,
             e \in {<<"5">>, <<"2", ".", "5">>, Str(<<"a">>)}}

InitDeclare ==
    /\ NewGrammarParser
    /\ request \in [table : DeclareTables, text : DeclareTexts]

\* parser.parse(text, lexer) with the analyzer as the earlier declarations left it,
\* and the status the filtered errors and the result give.
ReduceDeclaration ==
    /\ returned = None
    /\ \E run \in {parse(request.text, lineno,
                         [variables |-> request.table, semantic_errors |-> <<>>,
                          raised |-> FALSE], TRUE)} :
           /\ variables' = run.sa.variables
           /\ semantic_errors' = WithoutNotDeclared(run.sa.semantic_errors)
           /\ parsing_successful' = run.parsing_successful
           /\ parse_tree' = SetParseTree(parse_tree, run.result, run.parsing_successful)
           /\ returned' = Status(run.parsing_successful,
                                 WithoutNotDeclared(run.sa.semantic_errors), run.result)
           /\ lineno' = run.lineno
           /\ input_expression' = request.text
    /\ UNCHANGED <<lexemes_tokens, observed, request, derivation_steps>>

NextDeclare == ReduceDeclaration

SpecDeclare == InitDeclare /\ [][NextDeclare]_vars

\* C12: declare_variable on a name the table holds returns the error that the name
\* is already declared and leaves the entry of the name and the rest of the table as
\* they were; on a name the table lacks it adds one entry, with initialized False,
\* and leaves the rest.  A declaration of a name reduced against an analyzer that
\* holds the name from an earlier declaration yields semantic_error with the
\* already declared message.
C12_DeclareVariable ==
    returned # None =>
        IF DeclaredName \in DOMAIN request.table
        THEN /\ variables = request.table
             /\ semantic_errors # <<>>
             /\ semantic_errors[1] =
                    AlreadyDeclaredMsg(DeclaredName,
                                       request.table[DeclaredName].line_no)
             /\ returned = "semantic_error"
        ELSE /\ DOMAIN variables = DOMAIN request.table \cup {DeclaredName}
             /\ \A name \in DOMAIN request.table : variables[name] = request.table[name]
             /\ variables[DeclaredName].type = DeclaredType
             /\ variables[DeclaredName].line_no = 1
             /\ (Len(InputTokens) = 2 \/ returned = "semantic_error") =>
                    ~variables[DeclaredName].initialized

\* A declaration of a name the analyzer holds with another type.
C12_Redeclared ==
    /\ returned = "semantic_error"
    /\ DeclaredName \in DOMAIN request.table
    /\ request.table[DeclaredName].type # DeclaredType
    /\ request.table[DeclaredName].initialized

\* C13: semantic errors are collected without stopping at the first: a declaration
\* that redeclares a name the table holds and whose initializer has another type
\* than the declared one appends the already declared error and then the type error.
C13_BothErrorsCollected ==
    (/\ returned # None
     /\ Len(InputTokens) = 4
     /\ DeclaredName \in DOMAIN request.table
     /\ LiteralType(InputTokens[4].type) # DeclaredType) =>
        semantic_errors =
            <<AlreadyDeclaredMsg(DeclaredName, request.table[DeclaredName].line_no),
              CannotAssignMsg(type_names(LiteralType(InputTokens[4].type)),
                              type_names(DeclaredType), DeclaredName)>>

\* C14: one syntax error ends the parse: after the first call of p_error in an
\* analysis no callback runs, so the symbol table and the errors of the analyzer stay
\* as that call found them, and the symbol table of an analysis holds at most one
\* entry.
C14_SyntaxErrorEndsTheParse ==
    returned # None =>
        /\ observed.at_error # <<>> =>
               /\ variables = observed.at_error[1].variables
               /\ ~observed.raised =>
                      semantic_errors =
                          WithoutNotDeclared(observed.at_error[1].semantic_errors)
        /\ Cardinality(DOMAIN variables) <= 1

\* The text with a space in place of each character at which no rule matches.
RECURSIVE Blanked(_, _)
Blanked(data, i) ==
    IF i > Len(data) THEN <<>>
    ELSE IF data[i] \in t_ignore THEN <<data[i]>> \o Blanked(data, i + 1)
    ELSE LET Kept(m) ==
                 IF m.type = None THEN <<" ">> \o Blanked(data, i + 1)
                 ELSE SubSeq(data, i, i + m.len - 1) \o Blanked(data, i + m.len)
         IN  Kept(MatchAt(data, i))

\* What a call of parse_input_silent on a new instance leaves for the text.
OutcomeOf(text) ==
    LET Of(run) ==
            [lexemes_tokens |-> CollectTokens(text, 1),
             variables |-> run.sa.variables,
             semantic_errors |-> IF run.sa.raised THEN run.sa.semantic_errors
                                 ELSE WithoutNotDeclared(run.sa.semantic_errors),
             returned |-> IF run.sa.raised THEN "syntax_error"
                          ELSE Status(run.parsing_successful,
                                      WithoutNotDeclared(run.sa.semantic_errors),
                                      run.result)]
    IN  Of(parse(text, LinenoAfter(text, 1, 1), Begin(NoVariables), TRUE))

Outcome ==
    [lexemes_tokens |-> lexemes_tokens, variables |-> variables,
     semantic_errors |-> semantic_errors, returned |-> returned]

\* C15: the lexer ends on every text and does not fail: a character at which no token
\* starts is skipped, that one character only, and the scan goes on, so the tokens,
\* and with them the status and what the analysis leaves, are those of the text with a
\* space in place of each such character; "5 @" is analysed as "5" is.
C15_SkippedLikeASpace ==
    returned # None =>
        /\ Outcome = OutcomeOf(Blanked(input_expression, 1))
        /\ input_expression = <<"5", " ", "@">> =>
               /\ returned = "success"
               /\ Outcome = OutcomeOf(<<"5">>)

\* A text with a character no rule matches right before a token.
C15_SkippedBeforeAToken ==
    /\ returned = "success"
    /\ \E i \in 1..(Len(input_expression) - 1) :
           /\ input_expression[i] = "@"
           /\ input_expression[i + 1] \in LettersDigits
    /\ Blanked(input_expression, 1) # input_expression

\* The comparison operators a text without a quote holds, read from the left with the
\* two characters of an operator taken together.
RECURSIVE Comparisons(_, _)
Comparisons(data, i) ==
    IF i > Len(data) THEN <<>>
    ELSE IF i < Len(data) /\ <<data[i], data[i + 1]>> \in
                {<<">", "=">>, <<"<", "=">>, <<"=", "=">>, <<"!", "=">>}
         THEN <<SubSeq(data, i, i + 1)>> \o Comparisons(data, i + 2)
    ELSE IF data[i] \in {">", "<", "="}
         THEN <<<<data[i]>>>> \o Comparisons(data, i + 1)
    ELSE Comparisons(data, i + 1)

ComparisonTokens ==
    LET Of(toks) ==
            [i \in 1..Len(toks) |-> toks[i].value]
    IN  Of(SelectSeq(lexemes_tokens,
                     LAMBDA t : t.token_type \in {">=", "<=", "==", "!=", ">", "<", "="}))

\* C16: the lexer does not split an operator of two characters: where a token starts
\* at ">=", "<=", "==" or "!=" the one token GE, LE, EQ or NE is read, not GT, LT or
\* ASSIGN and then ASSIGN, and a ">", "<" or "=" alone is read as GT, LT or ASSIGN.
C16_TwoCharactersOneToken ==
    (returned # None /\ ~Contains(<<Quote>>, input_expression)) =>
        /\ ComparisonTokens = Comparisons(input_expression, 1)
        /\ \A i \in 1..Len(lexemes_tokens) :
               lexemes_tokens[i].token_type \in {">=", "<=", "==", "!=", ">", "<", "="} =>
                   lexemes_tokens[i].category = "Operator"

\* A condition with an operator of two characters right before a third one.
C16_ThreeInARow ==
    /\ returned # None
    /\ Contains(<<">", "=", "=">>, input_expression)
    /\ \E i \in 1..(Len(lexemes_tokens) - 1) :
           /\ lexemes_tokens[i].token_type = ">="
           /\ lexemes_tokens[i + 1].token_type = "="

(***************************************************************************)
(* BNFDerivationGenerator.  A step of derivation_steps is [rule, atom]:    *)
(* the text of the production and, for f"<factor> ::= {expr}", the text    *)
(* expr put after it.                                                      *)
(***************************************************************************)

Step(rule, atom) == [rule |-> rule, atom |-> atom]

\* A search from the left, which finds the first operator outside parentheses.
_find_operator_position_leftmost(expr, operator) ==
    LET RECURSIVE Scan(_, _)
        Scan(i, paren_count) ==
            IF i > Len(expr) THEN 0
            ELSE IF expr[i] = "(" THEN Scan(i + 1, paren_count + 1)
            ELSE IF expr[i] = ")" THEN Scan(i + 1, paren_count - 1)
            ELSE IF expr[i] = operator /\ paren_count = 0 THEN i
            ELSE Scan(i + 1, paren_count)
    IN  Scan(1, 0)

\* _find_operator_position(expr, operator): the place, counted from 1, of the last
\* operator with paren_count 0 in the search from the right, and 0 for the -1 of none.
_find_operator_position(expr, operator) ==
    LET RECURSIVE Scan(_, _)
        Scan(i, paren_count) ==
            IF i < 1 THEN 0
            ELSE IF expr[i] = ")" THEN Scan(i - 1, paren_count + 1)
            ELSE IF expr[i] = "(" THEN Scan(i - 1, paren_count - 1)
            ELSE IF expr[i] = operator /\ paren_count = 0 THEN i
            ELSE Scan(i - 1, paren_count)
    IN  Scan(Len(expr), 0)

\* The steps that _generate_expression_rules, _generate_term_rules and
\* _generate_factor_rules append for expr, in the order of the appends.
RECURSIVE _generate_expression_rules(_), _generate_term_rules(_), _generate_factor_rules(_)

_generate_factor_rules(expr) ==
    IF expr # <<>> /\ expr[1] = "(" /\ expr[Len(expr)] = ")"
    THEN <<Step("<factor> ::= ( <expression> )", <<>>)>>
         \o _generate_expression_rules(SubSeq(expr, 2, Len(expr) - 1))
    ELSE <<Step("<factor> ::= ", expr)>>

_generate_term_rules(expr) ==
    LET At_(mult_pos) ==
            IF mult_pos # 0
            THEN <<Step("<term> ::= <term> * <factor>", <<>>)>>
                 \o _generate_term_rules(SubSeq(expr, 1, mult_pos - 1))
                 \o _generate_factor_rules(SubSeq(expr, mult_pos + 1, Len(expr)))
            ELSE <<Step("<term> ::= <factor>", <<>>)>> \o _generate_factor_rules(expr)
    IN  At_(_find_operator_position(expr, "*"))

_generate_expression_rules(expr) ==
    LET At_(plus_pos) ==
            IF plus_pos # 0
            THEN <<Step("<expression> ::= <expression> + <term>", <<>>)>>
                 \o _generate_expression_rules(SubSeq(expr, 1, plus_pos - 1))
                 \o _generate_term_rules(SubSeq(expr, plus_pos + 1, Len(expr)))
            ELSE <<Step("<expression> ::= <term>", <<>>)>> \o _generate_term_rules(expr)
    IN  At_(_find_operator_position(expr, "+"))

\* _analyze_expression_structure(expression): expression.replace(' ', '') and the
\* rules of the rest.
_analyze_expression_structure(expression) ==
    _generate_expression_rules(SelectSeq(expression, LAMBDA c : c # " "))

\* generate_derivation_sequence(parse_tree, input_expression): the list returned,
\* which is derivation_steps.
generate_derivation_sequence(tree, expression) ==
    IF tree = <<>> THEN <<>> ELSE _analyze_expression_structure(expression)

(***************************************************************************)
(* SpecDerive: generate_derivation_sequence on the texts of the grammar    *)
(*   expression ::= expression + term | term                               *)
(*   term ::= term * factor | factor                                       *)
(*   factor ::= ( expression ) | atom                                      *)
(* request is [parse_tree, input_expression, derivation]: the arguments    *)
(* of the call and the derivation of the grammar that the text was written *)
(* from, its productions in pre-order.                                     *)
(***************************************************************************)

\* The most operators and pairs of parentheses in a text.
MaxConstructors == 4

\* The place of an identifier or number in a text not yet spelt.
Atoms == {<<"_">>}

\* The identifiers and numbers written at the places, from the left.
Spellings == <<<<"a">>, <<"b">>, <<"c">>, <<"2", ".", "5">>, <<"x", "y">>, <<"1", "0">>>>

\* The texts of a nonterminal with k operators and pairs of parentheses, each with
\* its derivation: [text, derivation].
Grammar[nk \in {"factor", "term", "expression"} \X (0..MaxConstructors)] ==
    LET k == nk[2]
    IN  CASE nk[1] = "factor" ->
               IF k = 0
               THEN {[text |-> a, derivation |-> <<Step("<factor> ::= ", a)>>] : a \in Atoms}
               ELSE {[text |-> <<"(">> \o e.text \o <<")">>,
                      derivation |-> <<Step("<factor> ::= ( <expression> )", <<>>)>>
                                     \o e.derivation]
                     : e \in Grammar[<<"expression", k - 1>>]}
          [] nk[1] = "term" ->
               {[text |-> f.text,
                 derivation |-> <<Step("<term> ::= <factor>", <<>>)>> \o f.derivation]
                : f \in Grammar[<<"factor", k>>]}
               \cup UNION {{[text |-> t.text \o <<"*">> \o f.text,
                             derivation |-> <<Step("<term> ::= <term> * <factor>", <<>>)>>
                                            \o t.derivation \o f.derivation]
                            : t \in Grammar[<<"term", i>>],
                              f \in Grammar[<<"factor", k - 1 - i>>]}
                           : i \in 0..(k - 1)}
          [] OTHER ->
               {[text |-> t.text,
                 derivation |-> <<Step("<expression> ::= <term>", <<>>)>> \o t.derivation]
                : t \in Grammar[<<"term", k>>]}
               \cup UNION {{[text |-> e.text \o <<"+">> \o t.text,
                             derivation |->
                                 <<Step("<expression> ::= <expression> + <term>", <<>>)>>
                                 \o e.derivation \o t.derivation]
                            : e \in Grammar[<<"expression", i>>],
                              t \in Grammar[<<"term", k - 1 - i>>]}
                           : i \in 0..(k - 1)}

\* The text with the spellings at its places, from the i-th on.
RECURSIVE Spelt(_, _)
Spelt(text, i) ==
    IF text = <<>> THEN <<>>
    ELSE IF <<text[1]>> \in Atoms
         THEN Spellings[((i - 1) % Len(Spellings)) + 1] \o Spelt(Tail(text), i + 1)
    ELSE <<text[1]>> \o Spelt(Tail(text), i)

\* The derivation with the spellings at its places: a leftmost derivation meets the
\* places in the order of the text.
RECURSIVE SpeltSteps(_, _)
SpeltSteps(derivation, i) ==
    IF derivation = <<>> THEN <<>>
    ELSE IF Head(derivation).atom \in Atoms
         THEN <<Step(Head(derivation).rule, Spellings[((i - 1) % Len(Spellings)) + 1])>>
              \o SpeltSteps(Tail(derivation), i + 1)
    ELSE <<Head(derivation)>> \o SpeltSteps(Tail(derivation), i)

\* The text with a space on each side of every operator.
RECURSIVE Spaced(_)
Spaced(text) ==
    IF text = <<>> THEN <<>>
    ELSE IF text[1] \in {"+", "*"} THEN <<" ", text[1], " ">> \o Spaced(Tail(text))
    ELSE <<text[1]>> \o Spaced(Tail(text))

SomeTree == <<ParseNode(Text("statement", <<>>), Text("statement -> expression", <<>>))>>

DeriveInputs ==
    UNION {{[parse_tree |-> SomeTree, input_expression |-> Spelt(e.text, 1),
             derivation |-> SpeltSteps(e.derivation, 1)],
            [parse_tree |-> SomeTree, input_expression |-> Spaced(Spelt(e.text, 2)),
             derivation |-> SpeltSteps(e.derivation, 2)]}
           : e \in UNION {Grammar[<<"expression", k>>] : k \in 0..MaxConstructors}}
    \cup {[parse_tree |-> <<>>, input_expression |-> Spelt(e.text, 1),
           derivation |-> <<>>]
          : e \in Grammar[<<"expression", 1>>]}

InitDerive ==
    /\ NewGrammarParser
    /\ request \in DeriveInputs

\* bnf_derivation.generate_derivation_sequence(parse_tree, input_expression)
Derive ==
    /\ returned = None
    /\ derivation_steps' =
           generate_derivation_sequence(request.parse_tree, request.input_expression)
    /\ returned' = "returned"
    /\ UNCHANGED <<variables, lexemes_tokens, parse_tree, parsing_successful,
                   semantic_errors, input_expression, lineno, observed, request>>

NextDerive == Derive

SpecDerive == InitDerive /\ [][NextDerive]_vars

\* C17: for a text of the grammar, written from +, *, balanced parentheses,
\* identifiers and numbers, generate_derivation_sequence returns the productions of
\* the parse tree of the text in pre-order, + and * taken from the left and * inside
\* the operands of +; for "a+b*c" these are expression + term, expression ::= term,
\* term ::= factor, factor ::= a, term * factor, term ::= factor, factor ::= b and
\* factor ::= c.
C17_PreOrderDerivation ==
    returned # None =>
        /\ request.parse_tree # <<>> => derivation_steps = request.derivation
        /\ (request.parse_tree # <<>> /\ request.input_expression = <<"a", "+", "b", "*", "c">>) =>
               derivation_steps =
                   <<Step("<expression> ::= <expression> + <term>", <<>>),
                     Step("<expression> ::= <term>", <<>>),
                     Step("<term> ::= <factor>", <<>>),
                     Step("<factor> ::= ", <<"a">>),
                     Step("<term> ::= <term> * <factor>", <<>>),
                     Step("<term> ::= <factor>", <<>>),
                     Step("<factor> ::= ", <<"b">>),
                     Step("<factor> ::= ", <<"c">>)>>

\* A sum in parentheses under a product, after a product: both operators twice over.
C17_NestedLeftAssociative ==
    /\ returned # None
    /\ request.parse_tree # <<>>
    /\ request.input_expression = <<"a", "*", "(", "b", "+", "c", ")">>
    /\ Len(derivation_steps) = 11

(***************************************************************************)
(* parse_input, the printing variant, and SpecPrint: one instance that its *)
(* owner passes texts to by parse_input, one after the other.              *)
(***************************************************************************)

\* The instance as the record of its fields.
Self ==
    [variables |-> variables, lexemes_tokens |-> lexemes_tokens,
     parse_tree |-> parse_tree, parsing_successful |-> parsing_successful,
     semantic_errors |-> semantic_errors, input_expression |-> input_expression,
     lineno |-> lineno, derivation_steps |-> derivation_steps]

\* parse_input(self, input_string): [self, returned, run], the instance after the
\* call, the status returned and the run of the parser.  tokenize_input resets the
\* analyzer and fills lexemes_tokens; the tree and the derivation are set on
\* success only, after the returns for the two kinds of error.
parse_input(self, input_string) ==
    LET Left(run, errors) ==
            LET success == ~run.sa.raised /\ run.parsing_successful /\ errors = <<>>
                               /\ run.result # <<>>
            IN  [self |->
                     [variables |-> run.sa.variables,
                      lexemes_tokens |-> CollectTokens(input_string, self.lineno),
                      parse_tree |-> IF success THEN run.result ELSE self.parse_tree,
                      parsing_successful |-> ~run.sa.raised /\ run.parsing_successful,
                      semantic_errors |-> errors,
                      input_expression |-> input_string,
                      lineno |-> run.lineno,
                      derivation_steps |->
                          IF success
                          THEN generate_derivation_sequence(run.result, input_string)
                          ELSE self.derivation_steps],
                 returned |-> IF run.sa.raised THEN "syntax_error"
                              ELSE Status(run.parsing_successful, errors, run.result),
                 run |-> run]
        Parsed(run) ==
            Left(run, IF run.sa.raised THEN run.sa.semantic_errors
                      ELSE WithoutNotDeclared(run.sa.semantic_errors))
    IN  Parsed(parse(input_string, LinenoAfter(input_string, 1, self.lineno),
                     Begin(self.variables), TRUE))

\* A call of parse_input by the owner of the instance.
AnalyzePrinting ==
    \E input_string \in SessionInputs :
        \E call \in {parse_input(Self, input_string)} :
            /\ call.self.lineno <= MaxLineno
            /\ variables' = call.self.variables
            /\ lexemes_tokens' = call.self.lexemes_tokens
            /\ parse_tree' = call.self.parse_tree
            /\ parsing_successful' = call.self.parsing_successful
            /\ semantic_errors' = call.self.semantic_errors
            /\ input_expression' = call.self.input_expression
            /\ lineno' = call.self.lineno
            /\ derivation_steps' = call.self.derivation_steps
            /\ returned' = call.returned
            /\ observed' = [p_error |-> call.run.p_error_calls,
                            raised |-> call.run.sa.raised,
                            at_error |-> call.run.at_error,
                            begin |-> [variables |-> Begin(variables).variables,
                                       semantic_errors |-> Begin(variables).semantic_errors],
                            earlier |-> [input_expression |-> input_expression,
                                         returned |-> returned, parse_tree |-> parse_tree]]
            /\ UNCHANGED request

NextPrint == AnalyzePrinting

SpecPrint == Init /\ [][NextPrint]_vars

\* What a call of parse_input_silent on the instance as it is would return and leave.
SilentOutcome(input_string) ==
    LET Of(run) ==
            [lexemes_tokens |-> CollectTokens(input_string, lineno),
             variables |-> run.sa.variables,
             semantic_errors |-> IF run.sa.raised THEN run.sa.semantic_errors
                                 ELSE WithoutNotDeclared(run.sa.semantic_errors),
             parse_tree |-> IF run.sa.raised THEN parse_tree
                            ELSE SetParseTree(parse_tree, run.result,
                                              run.parsing_successful),
             returned |-> IF run.sa.raised THEN "syntax_error"
                          ELSE Status(run.parsing_successful,
                                      WithoutNotDeclared(run.sa.semantic_errors),
                                      run.result)]
    IN  Of(parse(input_string, LinenoAfter(input_string, 1, lineno),
                 Begin(variables), TRUE))

OutcomeWithTree ==
    [lexemes_tokens |-> lexemes_tokens, variables |-> variables,
     semantic_errors |-> semantic_errors, parse_tree |-> parse_tree,
     returned |-> returned]

\* C19: parse_input and parse_input_silent are equivalent to an observer: on an
\* instance in the same state and for the same text, parse_input returns the status
\* and leaves the lexemes_tokens, semantic_errors, symbol table and parse_tree that
\* parse_input_silent does.
C19_PrintingAsSilent ==
    [][OutcomeWithTree' = SilentOutcome(input_expression')]_vars

(***************************************************************************)
(* SpecServe: parse_expression of main.py serving two requests at a time.  *)
(* request is [heap, calls, log]: heap holds the GrammarParser instances   *)
(* made so far, calls[i] is request i, [pc, expression, parser, result,    *)
(* response], with parser the place of its instance in the heap, and log   *)
(* lists the steps taken, <<i, pc reached>>.                               *)
(***************************************************************************)

NewInstance ==
    [variables |-> NoVariables, lexemes_tokens |-> <<>>, parse_tree |-> <<>>,
     parsing_successful |-> FALSE, semantic_errors |-> <<>>,
     input_expression |-> <<>>, lineno |-> 1, derivation_steps |-> <<>>]

\* One parser made by the first request and used by every later one.
GrammarParser_shared(heap) ==
    IF heap = <<>> THEN [heap |-> <<NewInstance>>, parser |-> 1]
    ELSE [heap |-> heap, parser |-> 1]

\* parser = GrammarParser(): a new instance in the heap, and its place.
GrammarParser(heap) == [heap |-> Append(heap, NewInstance), parser |-> Len(heap) + 1]

\* request_json.get('expression', '').strip()
RECURSIVE strip(_)
strip(text) ==
    IF text = <<>> THEN text
    ELSE IF text[1] \in {" ", Tab, Newline} THEN strip(Tail(text))
    ELSE IF text[Len(text)] \in {" ", Tab, Newline}
         THEN strip(SubSeq(text, 1, Len(text) - 1))
    ELSE text

\* serialize_parse_tree(node): the value and the children, without the production.
RECURSIVE serialize_parse_tree(_)
serialize_parse_tree(node) ==
    [value |-> node.value,
     children |-> [i \in 1..Len(node.children) |->
                      serialize_parse_tree(node.children[i])]]

\* response_data of parse_expression, from the parser after parse_input returned result.
response_data(parser, expression, result) ==
    [input_expression |-> expression,
     status |-> IF result = "success" THEN "success" ELSE "error",
     result_type |-> result,
     tokens |-> parser.lexemes_tokens,
     accepted |-> result \in {"success", "semantic_error"},
     parse_tree |-> IF parser.parse_tree # <<>> /\ result \in {"success", "semantic_error"}
                    THEN <<serialize_parse_tree(parser.parse_tree[1])>> ELSE <<>>,
     errors |-> parser.semantic_errors,
     variables_declared |-> IF result \in {"success", "semantic_error"}
                            THEN parser.variables ELSE NoVariables]

ServeInputs ==
    {Render(<<int_kw, <<"x">>, <<"=">>, <<"5">>>>),
     Render(<<int_kw, <<"x">>, <<"=">>, <<"3", ".", "1", "4">>>>),
     Render(<<string_kw, <<"s">>, <<"=">>, Str(<<"a">>), <<"*">>, Str(<<"b">>)>>),
     Render(<<int_kw, <<"y">>, <<"=">>, <<"5">>, <<"-">>>>),
     Render(<<<<"y">>, <<"+">>, <<"1">>>>),
     <<" ">> \o Render(<<double_kw, <<"d">>>>) \o <<" ">>}

NoResponse == [status |-> None]

InitServe ==
    /\ NewGrammarParser
    /\ request \in
           {[heap |-> <<>>,
             calls |-> [i \in 1..2 |->
                           [pc |-> "start", expression |-> strip(texts[i]), parser |-> 0,
                            result |-> None, response |-> NoResponse]],
             log |-> <<>>]
            : texts \in [1..2 -> ServeInputs]}

\* parser = GrammarParser()
Construct(i) ==
    /\ request.calls[i].pc = "start"
    /\ \E made \in {GrammarParser(request.heap)} :
           request' = [request EXCEPT !.heap = made.heap,
                                      !.calls[i].parser = made.parser,
                                      !.calls[i].pc = "constructed",
                                      !.log = Append(@, <<i, "constructed">>)]

\* result = parser.parse_input(expression)
ParseRequest(i) ==
    /\ request.calls[i].pc = "constructed"
    /\ \E call \in {parse_input(request.heap[request.calls[i].parser],
                                request.calls[i].expression)} :
           request' = [request EXCEPT !.heap[request.calls[i].parser] = call.self,
                                      !.calls[i].result = call.returned,
                                      !.calls[i].pc = "parsed",
                                      !.log = Append(@, <<i, "parsed">>)]

\* response_data is filled from the parser and returned.
Respond(i) ==
    /\ request.calls[i].pc = "parsed"
    /\ request' = [request EXCEPT
                       !.calls[i].response =
                           response_data(request.heap[request.calls[i].parser],
                                         request.calls[i].expression,
                                         request.calls[i].result),
                       !.calls[i].pc = "done",
                       !.log = Append(@, <<i, "done">>)]

NextServe ==
    \E i \in 1..2 :
        /\ Construct(i) \/ ParseRequest(i) \/ Respond(i)
        /\ UNCHANGED <<variables, lexemes_tokens, parse_tree, parsing_successful,
                       semantic_errors, input_expression, lineno, returned, observed,
                       derivation_steps>>

SpecServe == InitServe /\ [][NextServe]_vars

\* The response to a request that is served alone.
ResponseAlone(expression) ==
    LET Of(call) == response_data(call.self, expression, call.returned)
    IN  Of(parse_input(NewInstance, expression))

\* C18: requests served at the same time do not see the declarations or the errors
\* of each other: each is given a GrammarParser of its own, and however the steps of
\* two requests are interleaved, the symbol table and the semantic errors in the
\* response to one, with the rest of the response, are those of its expression alone.
C18_RequestsIsolated ==
    \A i \in DOMAIN request.calls :
        request.calls[i].pc = "done" =>
            /\ request.calls[i].response = ResponseAlone(request.calls[i].expression)
            /\ request.calls[i].parser # request.calls[3 - i].parser

\* Request 2 is parsed between the parse of request 1 and the response to it, and the
\* two leave different symbol tables and errors.
C18_ParsedInBetween ==
    /\ request.calls[1].pc = "done"
    /\ request.calls[2].pc = "done"
    /\ request.log[3] = <<1, "parsed">>
    /\ request.log[4] = <<2, "parsed">>
    /\ request.log[5] = <<1, "done">>
    /\ request.calls[1].response.errors # <<>>
    /\ request.calls[2].response.errors = <<>>
    /\ request.calls[1].response.variables_declared
           # request.calls[2].response.variables_declared

\* C20: the line_no of an entry of the symbol table is the line of the declared
\* identifier in the input of the call, counted from 1: it does not depend on the
\* inputs the instance analysed before, and not on the input being read twice, once
\* for the token list and once for the parse.
C20_LineOfTheIdentifier ==
    returned # None =>
        \A name \in DOMAIN variables :
            \E j \in 2..Len(InputTokens) :
                /\ InputTokens[j].type = "ID"
                /\ InputTokens[j].value = name
                /\ InputTokens[j - 1].type \in TypeKeywords
                /\ variables[name].line_no = InputTokens[j].lineno

\* The last input is a sentence that is no declaration: an expression statement, an
\* if statement or a while statement.
Untyped ==
    /\ returned # None
    /\ InputTokens # <<>>
    /\ InputTokens[1].type \notin TypeKeywords
    /\ Sentence(TypesOf(InputTokens))

\* C21: types are checked in the initializers of declarations only: for every
\* expression statement, if statement and while statement of the grammar the final
\* semantic_errors is empty and the status is success, also where the operands are
\* ones the table of valid operations rejects, as in 3 + "a" and if (1 > "a").
C21_NoTypeCheckOutsideDeclarations ==
    Untyped => returned = "success" /\ semantic_errors = <<>>

\* The condition 1 > "a" was analysed.
C21_IfOneGreaterA ==
    /\ Untyped
    /\ TypesOf(InputTokens) = <<"IF", "LPAREN", "NUMBER", "GT", "STRING", "RPAREN">>
    /\ parse_tree # <<>>

\* The last input is a declaration with an initializer, of the given token types,
\* in which every identifier is the declared one.
OwnInitializer(types) ==
    /\ returned # None
    /\ Len(InputTokens) >= 4
    /\ InputTokens[1].type \in TypeKeywords
    /\ [i \in 1..(Len(InputTokens) - 1) |-> InputTokens[i + 1].type] = types
    /\ \A i \in 2..Len(InputTokens) :
           InputTokens[i].type = "ID" => InputTokens[i].value = DeclaredName

\* C22: in a declaration T x = e the variable is entered in the symbol table before
\* e is checked, so x in its own initializer has the type T: for each T of int,
\* double, string and bool, T x = x is a success that leaves x in the table with
\* initialized True; and x * x in the initializer of a string x is reported as an
\* operation between string and string.
C22_OwnNameHasDeclaredType ==
    /\ OwnInitializer(<<"ID", "ASSIGN", "ID">>) =>
           /\ returned = "success"
           /\ semantic_errors = <<>>
           /\ DOMAIN variables = {DeclaredName}
           /\ variables[DeclaredName].type = DeclaredType
           /\ variables[DeclaredName].initialized
    /\ OwnInitializer(<<"ID", "ASSIGN", "ID", "MULTIPLY", "ID">>) /\ DeclaredType = "string" =>
           /\ returned = "semantic_error"
           /\ semantic_errors =
                  <<CannotPerformMsg("*", type_names("string"), type_names("string"),
                                     DeclaredName)>>
           /\ ~variables[DeclaredName].initialized

\* bool x = x was analysed.
C22_BoolOfItself ==
    /\ OwnInitializer(<<"ID", "ASSIGN", "ID">>)
    /\ DeclaredType = "bool"
    /\ returned = "success"

\* The places in the last input where a type keyword is followed by the identifier.
DeclaringPlaces(name) ==
    {j \in 2..Len(InputTokens) :
        /\ InputTokens[j].type = "ID"
        /\ InputTokens[j].value = name
        /\ InputTokens[j - 1].type \in TypeKeywords}

\* The final errors hold one that check_type_compatibility returns for the variable.
HasTypeError(name) ==
    \E i \in 1..Len(semantic_errors) :
        /\ semantic_errors[i].var = name
        /\ semantic_errors[i].kind \in {"Cannot assign", "Cannot perform", "Type mismatch"}

\* The exception that ended the analysis came from the check of the declaration at
\* place j, the last one reduced.
RaisedAt(j) ==
    /\ observed.raised
    /\ \A name \in DOMAIN variables : \A k \in DeclaringPlaces(name) : k <= j

\* C23: after an analysis an entry of the symbol table has initialized True exactly
\* when a declaration with an initializer made it and check_type_compatibility
\* returned no error for it; a declaration without an initializer, or one whose
\* initializer gave a type error, leaves the variable in the table with its declared
\* type and initialized False.
C23_InitializedIffChecked ==
    returned # None =>
        \A name \in DOMAIN variables :
            \A j \in DeclaringPlaces(name) :
                Cardinality(DeclaringPlaces(name)) = 1 =>
                    /\ variables[name].type = KeywordType(InputTokens[j - 1].type)
                    /\ variables[name].initialized <=>
                           /\ j < Len(InputTokens)
                           /\ InputTokens[j + 1].type = "ASSIGN"
                           /\ ~HasTypeError(name)
                           /\ ~RaisedAt(j)

\* Two declarations in one analysis, the first with an initializer that passes and
\* the second without one.
C23_OneInitializedOneNot ==
    /\ returned # None
    /\ \E a, b \in DOMAIN variables :
           /\ variables[a].initialized
           /\ ~variables[b].initialized

(***************************************************************************)
(* SpecDeriveAny: two calls of generate_derivation_sequence on one         *)
(* generator, the second on any text, well formed or not.  request is the  *)
(* [parse_tree, input_expression] of the last call.                        *)
(***************************************************************************)

\* The longest text of the second call.
MaxText == 4

AnyTexts == UNION {[1..n -> {"(", ")", "+", "*", "a", " "}] : n \in 0..MaxText}

FirstTexts == {<<"a">>, <<"a", "+", "a", "*", "a">>, <<")", "(">>}

\* Steps that are kept at the start of a call.
StartSteps_kept(steps) == steps

\* `self.derivation_steps = []` at the start of generate_derivation_sequence.
StartSteps(steps) == <<>>

\* A call of generate_derivation_sequence: the steps are appended to the list the
\* call starts with.
DeriveAny ==
    /\ returned \in {None, "returned"}
    /\ \E text \in IF returned = None THEN FirstTexts ELSE AnyTexts,
          tree \in {<<>>, SomeTree} :
           /\ derivation_steps' =
                  StartSteps(derivation_steps) \o generate_derivation_sequence(tree, text)
           /\ request' = [parse_tree |-> tree, input_expression |-> text]
    /\ returned' = IF returned = None THEN "returned" ELSE "returned again"
    /\ UNCHANGED <<variables, lexemes_tokens, parse_tree, parsing_successful,
                   semantic_errors, input_expression, lineno, observed>>

NextDeriveAny == DeriveAny

SpecDeriveAny == Init /\ [][NextDeriveAny]_vars

\* The text without its spaces.
Unspaced(text) == SelectSeq(text, LAMBDA c : c # " ")

\* C24: generate_derivation_sequence ends on every text, the empty one and those with
\* unbalanced parentheses among them: each call of the three generators appends one
\* step and calls on a shorter text or on the next of expression, term and factor, so
\* a text of n characters without its spaces gives at least 3 and at most 3 * (n + 1)
\* steps; and each call starts with an empty list, so that the steps are those of the
\* last text only.
C24_EndsAndStartsEmpty ==
    returned # None =>
        IF request.parse_tree = <<>> THEN derivation_steps = <<>>
        ELSE /\ Len(derivation_steps) >= 3
             /\ Len(derivation_steps) <= 3 * (Len(Unspaced(request.input_expression)) + 1)
             /\ derivation_steps[1].rule \in {"<expression> ::= <expression> + <term>",
                                              "<expression> ::= <term>"}
             /\ derivation_steps[Len(derivation_steps)].rule = "<factor> ::= "

\* The second call is on "()", after a first call that left steps: the factor in
\* parentheses and, for the empty text inside, an expression, a term and a factor.
C24_EmptyParentheses ==
    /\ returned = "returned again"
    /\ request = [parse_tree |-> SomeTree, input_expression |-> <<"(", ")">>]
    /\ Len(derivation_steps) = 6
    /\ derivation_steps[6] = Step("<factor> ::= ", <<>>)

====
